---- MODULE Spec2Model ----
(***************************************************************************)
(* A model of ReportEngine/renderers/pdf_layout_optimizer.py: the text     *)
(* metrics estimator, the font-size solver, the document analyzer and the  *)
(* configuration adjustment engine of PDFLayoutOptimizer.                  *)
(*                                                                         *)
(* Conventions.                                                            *)
(*  - Widths are Python floats in the source.  The model keeps them exact  *)
(*    by scaling by 100: a width w is held as 100*w, the factors           *)
(*    1.0/0.55/0.6/0.4 as 100/55/60/40, and "width > max_width" becomes    *)
(*    "width100 > 100*max_width".                                          *)
(*  - line_height is a float in the source (1.6, 1.8); the model holds it  *)
(*    in tenths (16, 18).                                                  *)
(*  - A Python value of the document IR is a record tagged by its type in  *)
(*    the field ty; a str is held by a content label and its length.       *)
(*  - Objects live in a heap (address -> object), so that aliasing and     *)
(*    in-place mutation can be told from copying.                          *)
(***************************************************************************)
EXTENDS Integers, Sequences, FiniteSets, TLC

(***************************************************************************)
(* Bounds of the model.                                                    *)
(***************************************************************************)
MaxTextLen == 2
MaxWidth == 4
MaxFont == 3

Min(a, b) == IF a < b THEN a ELSE b
Max(a, b) == IF a > b THEN a ELSE b

(***************************************************************************)
(* Characters.  The estimator tests a character three ways; "zh" stands    *)
(* for a character of U+4E00..U+9FFF (str.isalpha() also holds for it),    *)
(* "al" for any other alphabetic character, "dg" for a digit, "sy" for     *)
(* everything else.                                                        *)
(***************************************************************************)
Chars == {"zh", "al", "dg", "sy"}
InCJKRange(c) == c = "zh"
IsAlpha(c) == c \in {"zh", "al"}
IsDigit(c) == c = "dg"

CHAR_WIDTH_FACTOR == [chinese |-> 100, english |-> 55, number |-> 60, symbol |-> 40]

\* The if/elif chain of _estimate_text_width with the alphabetic test first.
CharWidthAlphaFirst(c, font_size) ==
    IF IsAlpha(c) THEN font_size * CHAR_WIDTH_FACTOR.english
    ELSE IF InCJKRange(c) THEN font_size * CHAR_WIDTH_FACTOR.chinese
    ELSE IF IsDigit(c) THEN font_size * CHAR_WIDTH_FACTOR.number
    ELSE font_size * CHAR_WIDTH_FACTOR.symbol

\* One iteration of the loop of _estimate_text_width: the width one
\* character adds (times 100).
CharWidth(c, font_size) ==
    IF InCJKRange(c) THEN font_size * CHAR_WIDTH_FACTOR.chinese
    ELSE IF IsAlpha(c) THEN font_size * CHAR_WIDTH_FACTOR.english
    ELSE IF IsDigit(c) THEN font_size * CHAR_WIDTH_FACTOR.number
    ELSE font_size * CHAR_WIDTH_FACTOR.symbol

RECURSIVE WidthFrom(_, _, _, _)
WidthFrom(text, i, font_size, width) ==
    IF i > Len(text) THEN width
    ELSE WidthFrom(text, i + 1, font_size, width + CharWidth(text[i], font_size))

\* _estimate_text_width(text, font_size), times 100.
EstimateTextWidth(text, font_size) ==
    IF Len(text) = 0 THEN 0 ELSE WidthFrom(text, 1, font_size, 0)

\* _check_text_overflow(text, font_size, max_width)
CheckTextOverflow(text, font_size, max_width) ==
    EstimateTextWidth(text, font_size) > 100 * max_width

RECURSIVE ScanDown(_, _, _, _, _)
\* The for loop of _calculate_safe_font_size over
\* range(max_font_size, min_font_size - 1, -1), font_size being the next
\* candidate.
ScanDown(text, max_width, min_font_size, max_font_size, font_size) ==
    IF font_size < min_font_size THEN <<min_font_size, TRUE>>
    ELSE IF ~CheckTextOverflow(text, font_size, max_width)
         THEN <<font_size, font_size < max_font_size>>
         ELSE ScanDown(text, max_width, min_font_size, max_font_size, font_size - 1)

RECURSIVE ScanUp(_, _, _, _, _)
ScanUp(text, max_width, min_font_size, max_font_size, font_size) ==
    IF font_size > max_font_size THEN <<min_font_size, TRUE>>
    ELSE IF ~CheckTextOverflow(text, font_size, max_width)
         THEN <<font_size, font_size < max_font_size>>
         ELSE ScanUp(text, max_width, min_font_size, max_font_size, font_size + 1)

\* The solver scanning upwards from min_font_size: the first size that fits
\* is then the smallest one.
SafeFontSizeAscending(text, max_width, min_font_size, max_font_size) ==
    IF Len(text) = 0 THEN <<max_font_size, FALSE>>
    ELSE ScanUp(text, max_width, min_font_size, max_font_size, min_font_size)

\* The solver reporting "no adjustment" when even min_font_size overflows.
SafeFontSizeSilentExhaustion(text, max_width, min_font_size, max_font_size) ==
    IF Len(text) = 0 THEN <<max_font_size, FALSE>>
    ELSE LET r == ScanDown(text, max_width, min_font_size, max_font_size, max_font_size)
         IN  IF CheckTextOverflow(text, r[1], max_width) THEN <<r[1], FALSE>> ELSE r

\* _calculate_safe_font_size(text, max_width, min_font_size, max_font_size):
\* the pair <<font size, needs_adjustment>>.
CalculateSafeFontSize(text, max_width, min_font_size, max_font_size) ==
    IF Len(text) = 0 THEN <<max_font_size, FALSE>>
    ELSE ScanDown(text, max_width, min_font_size, max_font_size, max_font_size)

(***************************************************************************)
(* Python values of the document IR.                                       *)
(***************************************************************************)
PyNone == [ty |-> "none"]
PyInt(n) == [ty |-> "int", v |-> n]
\* A str: s labels its content (the text of a type tag, or "text" for body
\* text whose characters do not matter), len is its length.
PyStr(s, n) == [ty |-> "str", s |-> s, len |-> n]
PyList(items) == [ty |-> "list", items |-> items]
\* A dict: d is a function from its (string) keys to its values.
PyDict(d) == [ty |-> "dict", d |-> d]
EmptyList == PyList(<<>>)
EmptyStr == PyStr("", 0)
EmptyDict == PyDict(<<>>)

\* isinstance(v, dict), isinstance(v, str)
IsDict(v) == v.ty = "dict"
IsStr(v) == v.ty = "str"
\* v.get(key, default) of a dict v
Get(v, key, default) == IF key \in DOMAIN v.d THEN v.d[key] ELSE default
\* v == 'tag' for a string literal tag
EqStr(v, tag) == v.ty = "str" /\ v.s = tag
\* bool(v)
Truthy(v) ==
    CASE v.ty = "none" -> FALSE
      [] v.ty = "int" -> v.v # 0
      [] v.ty = "str" -> v.len > 0
      [] v.ty = "list" -> Len(v.items) > 0
      [] v.ty = "dict" -> DOMAIN v.d # {}
\* len(v) is defined (otherwise TypeError)
HasLen(v) == v.ty \in {"str", "list", "dict"}
PyLen(v) ==
    CASE v.ty = "str" -> v.len
      [] v.ty = "list" -> Len(v.items)
      [] v.ty = "dict" -> Cardinality(DOMAIN v.d)
\* "for x in v" is defined (otherwise TypeError)
Iterable(v) == v.ty \in {"str", "list", "dict"}
\* The values "for x in v" yields: the items of a list, the characters of
\* a str, the keys of a dict (strs; only their number and type are used).
IterItems(v) ==
    CASE v.ty = "list" -> v.items
      [] v.ty = "str" -> [i \in 1..v.len |-> PyStr("char", 1)]
      [] v.ty = "dict" -> [i \in 1..Cardinality(DOMAIN v.d) |-> PyStr("key", 1)]
\* v[0] is defined for a truthy v: a non-empty list or str.  A dict with
\* string keys raises KeyError, an int TypeError.
HasFirst(v) == v.ty \in {"str", "list"}
First(v) == IF v.ty = "list" THEN v.items[1] ELSE PyStr("char", 1)

RECURSIVE DecimalDigits(_)
DecimalDigits(n) == IF n < 10 THEN 1 ELSE 1 + DecimalDigits(n \div 10)
\* len(str(v)) of a scalar v
StrLen(v) ==
    CASE v.ty = "str" -> v.len
      [] v.ty = "int" -> IF v.v < 0 THEN 1 + DecimalDigits(0 - v.v) ELSE DecimalDigits(v.v)
      [] v.ty = "none" -> 4

(***************************************************************************)
(* The document analyzer.  An analysis in progress is a record             *)
(* [stats, raised]: raised is set when the Python code ends in an          *)
(* exception (AttributeError, TypeError, KeyError), which ends the         *)
(* analysis and the optimize_for_document call around it.                  *)
(***************************************************************************)
LongParagraph == 500
LongCalloutParagraph == 200

InitialStats ==
    [kpi_count |-> 0, table_count |-> 0, chart_count |-> 0, callout_count |-> 0,
     max_kpi_value_length |-> 0, max_table_columns |-> 0, max_table_rows |-> 0,
     total_content_length |-> 0, has_long_text |-> FALSE]

Raise(r) == [r EXCEPT !.raised = TRUE]

RECURSIVE ExtractFrom(_, _, _)
\* The loop of _extract_text_from_paragraph; n is the length gathered.
ExtractFrom(inlines, i, n) ==
    IF i > Len(inlines) THEN n
    ELSE LET inline == inlines[i]
         IN  IF IsDict(inline)
             THEN LET text == Get(inline, "text", EmptyStr)
                  IN  ExtractFrom(inlines, i + 1,
                                  IF Truthy(text) THEN n + StrLen(text) ELSE n)
             ELSE IF IsStr(inline)
             THEN ExtractFrom(inlines, i + 1, n + inline.len)
             ELSE ExtractFrom(inlines, i + 1, n)

\* _extract_text_from_paragraph(paragraph): the length of the text it
\* returns, or raised.
ExtractTextFromParagraph(paragraph) ==
    LET inlines == Get(paragraph, "inlines", EmptyList)
    IN  IF ~Iterable(inlines) THEN [len |-> 0, raised |-> TRUE]
        ELSE [len |-> ExtractFrom(IterItems(inlines), 1, 0), raised |-> FALSE]

RECURSIVE KpiValuesLastWins(_, _, _)
\* The loop with max_kpi_value_length assigned the length of each value.
KpiValuesLastWins(kpis, i, r) ==
    IF i > Len(kpis) \/ r.raised THEN r
    ELSE IF ~IsDict(kpis[i]) THEN Raise(r)
    ELSE LET value == StrLen(Get(kpis[i], "value", EmptyStr))
         IN  KpiValuesLastWins(kpis, i + 1,
                 [r EXCEPT !.stats.max_kpi_value_length = value])

RECURSIVE KpiValues(_, _, _)
\* The loop over the items of a kpiGrid.
KpiValues(kpis, i, r) ==
    IF i > Len(kpis) \/ r.raised THEN r
    ELSE IF ~IsDict(kpis[i]) THEN Raise(r)
    ELSE LET value == StrLen(Get(kpis[i], "value", EmptyStr))
         IN  KpiValues(kpis, i + 1,
                 [r EXCEPT !.stats.max_kpi_value_length = Max(@, value)])

\* The kpiGrid branch of _analyze_block.
AnalyzeKpiGrid(block, r) ==
    LET kpis == Get(block, "items", EmptyList)
    IN  IF ~HasLen(kpis) THEN Raise(r)
        ELSE KpiValues(IterItems(kpis), 1,
                 [r EXCEPT !.stats.kpi_count = @ + PyLen(kpis)])

\* The table branch of _analyze_block.
AnalyzeTable(block, r) ==
    LET headers == Get(block, "headers", EmptyList)
        rows == Get(block, "rows", EmptyList)
        r1 == [r EXCEPT !.stats.table_count = @ + 1]
        FromCells ==
            LET cells == Get(First(rows), "cells", EmptyList)
            IN  IF ~HasLen(cells) THEN Raise(r1)
                ELSE [r1 EXCEPT !.stats.max_table_columns = Max(@, PyLen(cells))]
        FromHeaders ==
            IF ~HasLen(headers) THEN Raise(r1)
            ELSE [r1 EXCEPT !.stats.max_table_columns = Max(@, PyLen(headers))]
        r2 == IF Truthy(rows)
              THEN IF ~HasFirst(rows) THEN Raise(r1)
                   ELSE IF IsDict(First(rows)) THEN FromCells ELSE FromHeaders
              ELSE FromHeaders
    IN  IF r2.raised THEN r2
        ELSE IF ~HasLen(rows) THEN Raise(r2)
        ELSE [r2 EXCEPT !.stats.max_table_rows = Max(@, PyLen(rows))]

RECURSIVE CalloutBlocks(_, _, _)
\* The loop over the blocks of a callout.
CalloutBlocks(cbs, i, r) ==
    IF i > Len(cbs) \/ r.raised THEN r
    ELSE LET cb == cbs[i]
         IN  IF IsDict(cb) /\ EqStr(Get(cb, "type", PyNone), "paragraph")
             THEN LET text == ExtractTextFromParagraph(cb)
                  IN  IF text.raised THEN Raise(r)
                      ELSE CalloutBlocks(cbs, i + 1,
                               IF text.len > LongCalloutParagraph
                               THEN [r EXCEPT !.stats.has_long_text = TRUE]
                               ELSE r)
             ELSE CalloutBlocks(cbs, i + 1, r)

\* The callout branch of _analyze_block.
AnalyzeCallout(block, r) ==
    LET callout_blocks == Get(block, "blocks", EmptyList)
        r1 == [r EXCEPT !.stats.callout_count = @ + 1]
    IN  IF ~Iterable(callout_blocks) THEN Raise(r1)
        ELSE CalloutBlocks(IterItems(callout_blocks), 1, r1)

\* The paragraph branch with the threshold test "len(text) >= 500".
AnalyzeParagraphInclusive(block, r) ==
    LET text == ExtractTextFromParagraph(block)
    IN  IF text.raised THEN Raise(r)
        ELSE [r EXCEPT !.stats.total_content_length = @ + text.len,
                       !.stats.has_long_text = @ \/ text.len >= LongParagraph]

\* The paragraph branch of _analyze_block.
AnalyzeParagraph(block, r) ==
    LET text == ExtractTextFromParagraph(block)
    IN  IF text.raised THEN Raise(r)
        ELSE [r EXCEPT !.stats.total_content_length = @ + text.len,
                       !.stats.has_long_text = @ \/ text.len > LongParagraph]

RECURSIVE AnalyzeBlock(_, _)
RECURSIVE AnalyzeBlocks(_, _, _)
\* _analyze_block with the recursion into the nested blocks as the last
\* branch of the chain on the type: a block of a known type is a leaf.
AnalyzeBlockTypedLeaves(block, r) ==
    IF ~IsDict(block) THEN r
    ELSE LET node_type == Get(block, "type", PyNone)
             nested_blocks == Get(block, "blocks", EmptyList)
         IN  IF EqStr(node_type, "kpiGrid") THEN AnalyzeKpiGrid(block, r)
             ELSE IF EqStr(node_type, "table") THEN AnalyzeTable(block, r)
             ELSE IF EqStr(node_type, "chart") \/ EqStr(node_type, "widget")
                  THEN [r EXCEPT !.stats.chart_count = @ + 1]
             ELSE IF EqStr(node_type, "callout") THEN AnalyzeCallout(block, r)
             ELSE IF EqStr(node_type, "paragraph") THEN AnalyzeParagraph(block, r)
             ELSE IF Truthy(nested_blocks)
                  THEN IF ~Iterable(nested_blocks) THEN Raise(r)
                       ELSE AnalyzeBlocks(IterItems(nested_blocks), 1, r)
                  ELSE r

\* "for b in blocks: self._analyze_block(b, stats)"
AnalyzeBlocks(blocks, i, r) ==
    IF i > Len(blocks) \/ r.raised THEN r
    ELSE AnalyzeBlocks(blocks, i + 1, AnalyzeBlock(blocks[i], r))

\* _analyze_block(block, stats)
AnalyzeBlock(block, r) ==
    IF ~IsDict(block) THEN r
    ELSE LET node_type == Get(block, "type", PyNone)
             r1 == IF EqStr(node_type, "kpiGrid") THEN AnalyzeKpiGrid(block, r)
                   ELSE IF EqStr(node_type, "table") THEN AnalyzeTable(block, r)
                   ELSE IF EqStr(node_type, "chart") \/ EqStr(node_type, "widget")
                        THEN [r EXCEPT !.stats.chart_count = @ + 1]
                   ELSE IF EqStr(node_type, "callout") THEN AnalyzeCallout(block, r)
                   ELSE IF EqStr(node_type, "paragraph") THEN AnalyzeParagraph(block, r)
                   ELSE r
             nested_blocks == Get(block, "blocks", EmptyList)
         IN  IF r1.raised THEN r1
             ELSE IF Truthy(nested_blocks)
                  THEN IF ~Iterable(nested_blocks) THEN Raise(r1)
                       ELSE AnalyzeBlocks(IterItems(nested_blocks), 1, r1)
                  ELSE r1

RECURSIVE AnalyzeChapter(_, _)
RECURSIVE AnalyzeChildren(_, _, _)
\* The loop over the children of a chapter.
AnalyzeChildren(children, i, r) ==
    IF i > Len(children) \/ r.raised THEN r
    ELSE AnalyzeChildren(children, i + 1,
             IF IsDict(children[i]) THEN AnalyzeChapter(children[i], r) ELSE r)

\* _analyze_chapter(chapter, stats)
AnalyzeChapter(chapter, r) ==
    IF ~IsDict(chapter) THEN Raise(r)
    ELSE LET blocks == Get(chapter, "blocks", EmptyList)
             children == Get(chapter, "children", EmptyList)
         IN  IF ~Iterable(blocks) THEN Raise(r)
             ELSE LET r1 == AnalyzeBlocks(IterItems(blocks), 1, r)
                  IN  IF r1.raised THEN r1
                      ELSE IF ~Iterable(children) THEN Raise(r1)
                      ELSE AnalyzeChildren(IterItems(children), 1, r1)

RECURSIVE AnalyzeChapters(_, _, _)
\* "for chapter in chapters: self._analyze_chapter(chapter, stats)"
AnalyzeChapters(chapters, i, r) ==
    IF i > Len(chapters) \/ r.raised THEN r
    ELSE AnalyzeChapters(chapters, i + 1, AnalyzeChapter(chapters[i], r))

\* _analyze_document(document_ir): [stats, raised]
AnalyzeDocument(document_ir) ==
    LET r == [stats |-> InitialStats, raised |-> FALSE]
        first == Get(document_ir, "chapters", EmptyList)
        chapters == IF ~Truthy(first) THEN Get(document_ir, "sections", EmptyList)
                    ELSE first
    IN  IF ~Iterable(chapters) THEN Raise(r)
        ELSE AnalyzeChapters(IterItems(chapters), 1, r)

\* The stats, and whether the call raised, of _analyze_document on a record
\* document_ir (document_ir.get raises on anything else).
AnalyzeDocumentIR(document_ir) ==
    IF ~IsDict(document_ir) THEN [stats |-> InitialStats, raised |-> TRUE]
    ELSE AnalyzeDocument(document_ir)

(***************************************************************************)
(* The layout configuration.  The dataclass defaults, by value.            *)
(***************************************************************************)
KPICardLayout ==
    [font_size_value |-> 32, font_size_label |-> 14, font_size_change |-> 13,
     padding |-> 20, min_height |-> 120, value_max_length |-> 10]
CalloutLayout ==
    [font_size_title |-> 16, font_size_content |-> 14, padding |-> 20,
     line_height |-> 16, max_width |-> "100%"]
TableLayout ==
    [font_size_header |-> 13, font_size_body |-> 12, cell_padding |-> 12,
     max_cell_width |-> 200, overflow_strategy |-> "wrap"]
ChartLayout ==
    [font_size_title |-> 16, font_size_label |-> 12, min_height |-> 300,
     max_height |-> 600, padding |-> 20]
GridLayout == [columns |-> 2, gap |-> 20, responsive_breakpoint |-> 768]
PageLayout ==
    [font_size_base |-> 14, font_size_h1 |-> 28, font_size_h2 |-> 24,
     font_size_h3 |-> 20, font_size_h4 |-> 16, line_height |-> 16,
     paragraph_spacing |-> 16, section_spacing |-> 32, page_padding |-> 40,
     max_content_width |-> 800]

\* _create_default_config(), by value.
DefaultConfig ==
    [page |-> PageLayout, kpi_card |-> KPICardLayout, callout |-> CalloutLayout,
     table |-> TableLayout, chart |-> ChartLayout, grid |-> GridLayout,
     auto_adjust_font_size |-> TRUE, auto_adjust_grid_columns |-> TRUE,
     prevent_orphan_headers |-> TRUE, optimize_for_print |-> TRUE]

(***************************************************************************)
(* The heap.  A PDFLayoutConfig object holds the addresses of its six      *)
(* layout objects and its four flags; a layout object holds its fields.    *)
(***************************************************************************)
\* The constructor call PDFLayoutConfig(page=PageLayout(**v.page), ...):
\* six new layout objects and the config object that refers to them,
\* allocated after the objects of h.  [heap, addr].
NewConfig(h, v) ==
    LET n == Len(h)
    IN  [heap |-> h \o <<v.page, v.kpi_card, v.callout, v.table, v.chart, v.grid,
                        [page |-> n + 1, kpi_card |-> n + 2, callout |-> n + 3,
                         table |-> n + 4, chart |-> n + 5, grid |-> n + 6,
                         auto_adjust_font_size |-> v.auto_adjust_font_size,
                         auto_adjust_grid_columns |-> v.auto_adjust_grid_columns,
                         prevent_orphan_headers |-> v.prevent_orphan_headers,
                         optimize_for_print |-> v.optimize_for_print]>>,
         addr |-> n + 7]

\* PDFLayoutConfig.to_dict(): the configuration at address c, by value
\* (asdict of each layout object, and the flags).
ToDict(h, c) ==
    [page |-> h[h[c].page], kpi_card |-> h[h[c].kpi_card],
     callout |-> h[h[c].callout], table |-> h[h[c].table],
     chart |-> h[h[c].chart], grid |-> h[h[c].grid],
     auto_adjust_font_size |-> h[c].auto_adjust_font_size,
     auto_adjust_grid_columns |-> h[c].auto_adjust_grid_columns,
     prevent_orphan_headers |-> h[c].prevent_orphan_headers,
     optimize_for_print |-> h[c].optimize_for_print]

\* A shallow copy: a new config object that shares the baseline's layout
\* objects.
CopyConfigShallow(h, c) == [heap |-> h \o <<h[c]>>, addr |-> Len(h) + 1]

\* The first statement of _adjust_config_based_on_stats: a new config built
\* from asdict of each layout object of the config at c.  [heap, addr].
CopyConfig(h, c) == NewConfig(h, ToDict(h, c))

(***************************************************************************)
(* The adjustment engine.  A pass in progress is a record                  *)
(* [heap, log, solver]: log is self.optimization_log, solver the call of   *)
(* _calculate_safe_font_size the pass made (its arguments and result), if  *)
(* any; c is the address of the local config, the copy being adjusted.  A  *)
(* log line is [msg, a, b]: which message, and the numbers formatted into  *)
(* it.                                                                     *)
(***************************************************************************)
NoSolverCall ==
    [called |-> FALSE, text_len |-> 0, max_width |-> 0, min_font_size |-> 0,
     max_font_size |-> 0, safe_font_size |-> 0, needs_adjustment |-> FALSE]
SolverCall(n, width, lo, hi, solved) ==
    [called |-> TRUE, text_len |-> n, max_width |-> width, min_font_size |-> lo,
     max_font_size |-> hi, safe_font_size |-> solved[1], needs_adjustment |-> solved[2]]
LogLine(msg, a, b) == [msg |-> msg, a |-> a, b |-> b]
Append1(p, line) == [p EXCEPT !.log = Append(@, line)]

\* '9' * n
Nines(n) == [i \in 1..n |-> "dg"]

KpiMinFontSize == 18
KpiMaxFontSize == 32
KpiLongValue == 10
KpiPrecautionSize == 28

\* The local kpi_card_width: (800 - 20) // 2 - 40.
KpiCardWidth == (800 - 20) \div 2 - 40

\* The KPI font-size rule given the width passed to the solver.
AdjustKpiFontSizeFor(p, c, stats, width) ==
    IF stats.max_kpi_value_length > 0
    THEN LET sample_text == Nines(stats.max_kpi_value_length)
             solved == CalculateSafeFontSize(sample_text, width,
                                             KpiMinFontSize, KpiMaxFontSize)
             safe_font_size == solved[1]
             needs_adjustment == solved[2]
             kc == p.heap[c].kpi_card
             q == [p EXCEPT !.solver = SolverCall(stats.max_kpi_value_length, width,
                                           KpiMinFontSize, KpiMaxFontSize, solved)]
         IN  IF needs_adjustment
             THEN Append1([q EXCEPT !.heap[kc].font_size_value = safe_font_size],
                          LogLine("kpi_value_too_long",
                                  stats.max_kpi_value_length, safe_font_size))
             ELSE IF stats.max_kpi_value_length > KpiLongValue
             THEN Append1([q EXCEPT !.heap[kc].font_size_value =
                                        Min(KpiPrecautionSize, safe_font_size)],
                          LogLine("kpi_value_long", stats.max_kpi_value_length,
                                  Min(KpiPrecautionSize, safe_font_size)))
             ELSE q
    ELSE p

\* The rule with the width taken from the configuration being adjusted:
\* (800 - grid.gap) // 2 - 2 * kpi_card.padding.
AdjustKpiFontSizeConfigWidth(p, c, stats) ==
    AdjustKpiFontSizeFor(p, c, stats,
        (800 - p.heap[p.heap[c].grid].gap) \div 2
            - 2 * p.heap[p.heap[c].kpi_card].padding)

\* The rule with the precaution applied from 10 characters on (>= 10).
AdjustKpiFontSizeEarlyPrecaution(p, c, stats) ==
    LET q == AdjustKpiFontSizeFor(p, c, stats, KpiCardWidth)
    IN  IF stats.max_kpi_value_length = KpiLongValue
        THEN [q EXCEPT !.heap[p.heap[c].kpi_card].font_size_value = KpiPrecautionSize]
        ELSE q

\* The KPI font-size rule applied only when auto_adjust_font_size is set.
AdjustKpiFontSizeIfAuto(p, c, stats) ==
    IF p.heap[c].auto_adjust_font_size
    THEN AdjustKpiFontSizeFor(p, c, stats, KpiCardWidth)
    ELSE p

\* Lines 466-489: the KPI font-size rule.
AdjustKpiFontSize(p, c, stats) == AdjustKpiFontSizeFor(p, c, stats, KpiCardWidth)

\* The grid rule with its last branch guarded by 0 < kpi_count <= 2.
AdjustGridSkipEmpty(p, c, stats) ==
    LET g == p.heap[c].grid
        kc == p.heap[c].kpi_card
    IN  IF stats.kpi_count > 6
        THEN Append1([p EXCEPT !.heap[g].columns = 3, !.heap[kc].min_height = 100,
                               !.heap[kc].padding = 16],
                     LogLine("kpi_many", stats.kpi_count, 3))
        ELSE IF stats.kpi_count > 4
        THEN Append1([p EXCEPT !.heap[g].columns = 2, !.heap[kc].padding = 18],
                     LogLine("kpi_medium", stats.kpi_count, 2))
        ELSE IF stats.kpi_count <= 2 /\ stats.kpi_count > 0
        THEN Append1([p EXCEPT !.heap[g].columns = 1, !.heap[kc].padding = 24],
                     LogLine("kpi_few", stats.kpi_count, 1))
        ELSE p

\* Lines 491-512: the KPI grid rule.
AdjustGrid(p, c, stats) ==
    LET g == p.heap[c].grid
        kc == p.heap[c].kpi_card
    IN  IF stats.kpi_count > 6
        THEN Append1([p EXCEPT !.heap[g].columns = 3, !.heap[kc].min_height = 100,
                               !.heap[kc].padding = 16],
                     LogLine("kpi_many", stats.kpi_count, 3))
        ELSE IF stats.kpi_count > 4
        THEN Append1([p EXCEPT !.heap[g].columns = 2, !.heap[kc].padding = 18],
                     LogLine("kpi_medium", stats.kpi_count, 2))
        ELSE IF stats.kpi_count <= 2
        THEN Append1([p EXCEPT !.heap[g].columns = 1, !.heap[kc].padding = 24],
                     LogLine("kpi_few", stats.kpi_count, 1))
        ELSE p

\* The table rule with inclusive thresholds (>= 8, >= 6, >= 4).
AdjustTableInclusive(p, c, stats) ==
    LET t == p.heap[c].table
    IN  IF stats.max_table_columns >= 8
        THEN Append1([p EXCEPT !.heap[t].font_size_header = 10,
                               !.heap[t].font_size_body = 9,
                               !.heap[t].cell_padding = 6],
                     LogLine("table_very_wide", stats.max_table_columns, 0))
        ELSE IF stats.max_table_columns >= 6
        THEN Append1([p EXCEPT !.heap[t].font_size_header = 11,
                               !.heap[t].font_size_body = 10,
                               !.heap[t].cell_padding = 8],
                     LogLine("table_wide", stats.max_table_columns, 0))
        ELSE IF stats.max_table_columns >= 4
        THEN Append1([p EXCEPT !.heap[t].font_size_header = 12,
                               !.heap[t].font_size_body = 11,
                               !.heap[t].cell_padding = 10],
                     LogLine("table_medium", stats.max_table_columns, 0))
        ELSE p

\* Lines 514-538: the table rule.
AdjustTable(p, c, stats) ==
    LET t == p.heap[c].table
    IN  IF stats.max_table_columns > 8
        THEN Append1([p EXCEPT !.heap[t].font_size_header = 10,
                               !.heap[t].font_size_body = 9,
                               !.heap[t].cell_padding = 6],
                     LogLine("table_very_wide", stats.max_table_columns, 0))
        ELSE IF stats.max_table_columns > 6
        THEN Append1([p EXCEPT !.heap[t].font_size_header = 11,
                               !.heap[t].font_size_body = 10,
                               !.heap[t].cell_padding = 8],
                     LogLine("table_wide", stats.max_table_columns, 0))
        ELSE IF stats.max_table_columns > 4
        THEN Append1([p EXCEPT !.heap[t].font_size_header = 12,
                               !.heap[t].font_size_body = 11,
                               !.heap[t].cell_padding = 10],
                     LogLine("table_medium", stats.max_table_columns, 0))
        ELSE p

\* The long-text rule with the paragraph spacing raised by 2 from its
\* current value instead of set to 18.
AdjustLongTextRelative(p, c, stats) ==
    IF stats.has_long_text
    THEN Append1([p EXCEPT !.heap[p.heap[c].page].line_height = 18,
                           !.heap[p.heap[c].callout].line_height = 18,
                           !.heap[p.heap[c].page].paragraph_spacing = @ + 2],
                 LogLine("long_text", 0, 0))
    ELSE p

\* Lines 540-547: the long-text rule.
AdjustLongText(p, c, stats) ==
    IF stats.has_long_text
    THEN Append1([p EXCEPT !.heap[p.heap[c].page].line_height = 18,
                           !.heap[p.heap[c].callout].line_height = 18,
                           !.heap[p.heap[c].page].paragraph_spacing = 18],
                 LogLine("long_text", 0, 0))
    ELSE p

ManyBlocks == 20

\* The many-blocks rule shrinking font_size_h1 as well.
AdjustManyBlocksAllHeadings(p, c, stats) ==
    LET total_blocks == stats.kpi_count + stats.table_count
                          + stats.chart_count + stats.callout_count
    IN  IF total_blocks > ManyBlocks
        THEN Append1([p EXCEPT !.heap[p.heap[c].page].font_size_base = 13,
                               !.heap[p.heap[c].page].font_size_h1 = 26,
                               !.heap[p.heap[c].page].font_size_h2 = 22,
                               !.heap[p.heap[c].page].font_size_h3 = 18],
                     LogLine("many_blocks", total_blocks, 0))
        ELSE p

\* Lines 549-559: the many-blocks rule.
AdjustManyBlocks(p, c, stats) ==
    LET total_blocks == stats.kpi_count + stats.table_count
                          + stats.chart_count + stats.callout_count
    IN  IF total_blocks > ManyBlocks
        THEN Append1([p EXCEPT !.heap[p.heap[c].page].font_size_base = 13,
                               !.heap[p.heap[c].page].font_size_h2 = 22,
                               !.heap[p.heap[c].page].font_size_h3 = 18],
                     LogLine("many_blocks", total_blocks, 0))
        ELSE p

\* _adjust_config_based_on_stats(stats) on the optimizer whose config is at
\* self_cfg, with heap h and optimization_log lg: [heap, log, solver, config],
\* config being the address returned.  (_detect_kpi_overflow_issues only reads and
\* writes warnings to the logger; it changes nothing.)
AdjustConfigBasedOnStats(h, lg, self_cfg, stats) ==
    LET cp == CopyConfig(h, self_cfg)
        c == cp.addr
        p0 == [heap |-> cp.heap, log |-> lg, solver |-> NoSolverCall]
        p1 == AdjustKpiFontSize(p0, c, stats)
        p2 == AdjustGrid(p1, c, stats)
        p3 == AdjustTable(p2, c, stats)
        p4 == AdjustLongText(p3, c, stats)
        p5 == AdjustManyBlocks(p4, c, stats)
    IN  [heap |-> p5.heap, log |-> p5.log, solver |-> p5.solver, config |-> c]

\* _log_optimization(stats, config): the log entry it returns (the
\* timestamp left out); the caller clears optimization_log after it.
LogOptimization(h, lg, stats, config) ==
    [document_stats |-> stats, optimizations |-> lg, final_config |-> ToDict(h, config)]

\* The log kept as it is at the end of _log_optimization.
KeepLog(lg) == lg

\* self.optimization_log.clear(), the last statement of _log_optimization.
ClearLog(lg) == <<>>

(***************************************************************************)
(* Input documents.  Blocks are drawn from families that cover each branch *)
(* of the analyzer, well-formed and malformed, and put under each shape of *)
(* root the analyzer tells apart.                                          *)
(***************************************************************************)
MaxKpiItems == 7
MaxKpiLen == 33
MaxColumns == 10

Text(n) == PyStr("text", n)
Digits(n) == PyStr("digits", n)
TypeOf(block) == Get(block, "type", PyNone)

KpiItem(n) == PyDict([label |-> Text(5), value |-> Digits(n)])
\* A kpiGrid of k items: the last with a value of n characters, the others
\* with a value of one.
KpiGridBlock(k, n) ==
    PyDict([type |-> PyStr("kpiGrid", 7),
            items |-> PyList([i \in 1..k |-> IF i = k THEN KpiItem(n) ELSE KpiItem(1)])])
Cells(c) == PyList([i \in 1..c |-> Text(3)])
\* A table of c headers and no rows.
TableOfHeaders(c) == PyDict([type |-> PyStr("table", 5), headers |-> Cells(c)])
\* A table whose rows are records with c cells, under two headers.
TableOfCellRows(c) ==
    PyDict([type |-> PyStr("table", 5), headers |-> Cells(2),
            rows |-> PyList(<<PyDict([cells |-> Cells(c)]), PyDict([cells |-> Cells(1)])>>)])
\* A table whose rows are bare lists of c + 1 cells, under c headers.
TableOfListRows(c) ==
    PyDict([type |-> PyStr("table", 5), headers |-> Cells(c),
            rows |-> PyList(<<Cells(c + 1)>>)])
\* A paragraph of one inline record with n characters of text.
ParagraphBlock(n) ==
    PyDict([type |-> PyStr("paragraph", 9),
            inlines |-> PyList(<<PyDict([text |-> Text(n)])>>)])
\* A paragraph of n + 250 characters over two inlines, between inlines that
\* add nothing (a number, a record with a falsy text, one with no text).
ParagraphOfParts(n) ==
    PyDict([type |-> PyStr("paragraph", 9),
            inlines |-> PyList(<<PyDict([text |-> Text(n)]), PyInt(7), Text(250),
                                 PyDict([text |-> PyInt(0)]),
                                 PyDict([marks |-> EmptyList])>>)])
\* A paragraph whose one inline has a number as its text.
ParagraphOfNumber(v) ==
    PyDict([type |-> PyStr("paragraph", 9),
            inlines |-> PyList(<<PyDict([text |-> PyInt(v)])>>)])
CalloutOf(bs) == PyDict([type |-> PyStr("callout", 7), blocks |-> PyList(bs)])
\* A block of a type the analyzer does not know, holding blocks.
CustomOf(bs) == PyDict([type |-> PyStr("custom", 6), blocks |-> PyList(bs)])
\* A block with no type, holding blocks.
UntypedOf(bs) == PyDict([blocks |-> PyList(bs)])
ChartBlock == PyDict([type |-> PyStr("chart", 5)])
WidgetBlock == PyDict([type |-> PyStr("widget", 6)])

ParaLens == <<0, 200, 201, 500, 501, 600>>

KpiCountFamily == [i \in 1..(MaxKpiItems + 1) |-> KpiGridBlock(i - 1, 1)]
KpiLenFamily == [i \in 1..(MaxKpiLen + 1) |-> KpiGridBlock(1, i - 1)]
TableFamily ==
    [i \in 1..(MaxColumns + 1) |-> TableOfHeaders(i - 1)]
    \o [i \in 1..(MaxColumns + 1) |-> TableOfCellRows(i - 1)]
    \o [i \in 1..(MaxColumns + 1) |-> TableOfListRows(i - 1)]
TextFamily ==
    [i \in 1..Len(ParaLens) |-> ParagraphBlock(ParaLens[i])]
    \o [i \in 1..Len(ParaLens) |-> CalloutOf(<<ParagraphBlock(ParaLens[i])>>)]
    \o [i \in 1..Len(ParaLens) |-> ParagraphOfParts(ParaLens[i])]
    \o <<CalloutOf(<<CustomOf(<<ParagraphBlock(201)>>)>>),
         CalloutOf(<<CustomOf(<<ParagraphBlock(501)>>), Text(4)>>),
         CustomOf(<<CalloutOf(<<ParagraphBlock(201), ChartBlock>>)>>),
         CalloutOf(<<ParagraphOfParts(0), CalloutOf(<<ParagraphBlock(200)>>)>>),
         ParagraphOfNumber(12345), ParagraphOfNumber(0)>>
NestFamily ==
    <<ChartBlock, WidgetBlock,
      CustomOf(<<KpiGridBlock(2, 12), TableOfHeaders(7)>>),
      UntypedOf(<<CustomOf(<<WidgetBlock, TableOfCellRows(5)>>), ChartBlock>>),
      PyDict([type |-> PyStr("table", 5), headers |-> Cells(9),
              blocks |-> PyList(<<KpiGridBlock(1, 20)>>)]),
      PyDict([type |-> PyStr("kpiGrid", 7), items |-> PyList(<<KpiItem(3)>>),
              blocks |-> PyList(<<ParagraphBlock(501)>>)]),
      PyDict([type |-> PyStr("paragraph", 9), inlines |-> PyList(<<Text(10)>>),
              blocks |-> PyList(<<TableOfHeaders(5)>>)]),
      KpiGridBlock(21, 1),
      PyDict([type |-> PyStr("kpiGrid", 7),
              items |-> PyList(<<PyDict([value |-> PyInt(1234567)]),
                                 PyDict([value |-> PyNone]),
                                 PyDict([label |-> Text(2)])>>)])>>
\* Nodes that miss fields or have an unexpected shape.
MalformedFamily ==
    <<Text(3), PyNone, PyInt(3), EmptyDict,
      PyDict([type |-> PyStr("table", 5)]),
      PyDict([type |-> PyStr("kpiGrid", 7)]),
      PyDict([type |-> PyStr("paragraph", 9)]),
      PyDict([type |-> PyStr("callout", 7)]),
      PyDict([type |-> PyInt(1)]),
      PyDict([type |-> PyStr("kpiGrid", 7), items |-> PyList(<<KpiItem(2), Text(2)>>)]),
      PyDict([type |-> PyStr("kpiGrid", 7), items |-> PyNone]),
      PyDict([type |-> PyStr("kpiGrid", 7), items |-> Text(2)]),
      PyDict([type |-> PyStr("table", 5), headers |-> PyNone]),
      PyDict([type |-> PyStr("table", 5), headers |-> Text(6)]),
      PyDict([type |-> PyStr("table", 5), headers |-> Cells(3), rows |-> PyInt(5)]),
      PyDict([type |-> PyStr("table", 5), headers |-> Cells(3), rows |-> PyNone]),
      PyDict([type |-> PyStr("table", 5), headers |-> Cells(3),
              rows |-> PyDict([first |-> Cells(2)])]),
      PyDict([type |-> PyStr("table", 5), headers |-> Cells(3),
              rows |-> PyList(<<PyDict([cells |-> PyInt(4)])>>)]),
      PyDict([type |-> PyStr("paragraph", 9), inlines |-> PyNone]),
      PyDict([type |-> PyStr("callout", 7), blocks |-> PyNone]),
      PyDict([type |-> PyStr("callout", 7), blocks |-> Text(2)]),
      PyDict([type |-> PyStr("custom", 6), blocks |-> PyNone]),
      PyDict([type |-> PyStr("custom", 6), blocks |-> PyInt(5)]),
      CalloutOf(<<PyDict([type |-> PyStr("paragraph", 9), inlines |-> PyInt(1)])>>)>>

\* The blocks a document's first block is drawn from, and its second.
PrimaryBlocks ==
    KpiCountFamily \o KpiLenFamily \o TableFamily \o TextFamily \o NestFamily
        \o MalformedFamily
SecondaryBlocks ==
    <<PyNone, KpiGridBlock(3, 12), KpiGridBlock(6, 20), TableOfHeaders(5),
      TableOfCellRows(9), ParagraphBlock(500), ParagraphBlock(501),
      CalloutOf(<<ParagraphBlock(201)>>), ChartBlock, KpiGridBlock(21, 1),
      PyDict([type |-> PyStr("table", 5), headers |-> PyNone])>>

Chapter(bs) == PyDict([title |-> Text(5), blocks |-> PyList(bs)])
Shapes == 1..8
\* The document of shape s holding the blocks b1 and b2.
Document(s, b1, b2) ==
    CASE s = 1 -> PyDict([chapters |-> PyList(<<Chapter(<<b1, b2>>)>>)])
      [] s = 2 -> PyDict([sections |-> PyList(<<Chapter(<<b1>>), Chapter(<<b2>>)>>)])
      [] s = 3 -> PyDict([chapters |-> PyList(<<
                     PyDict([blocks |-> PyList(<<b1>>),
                             children |-> PyList(<<Text(2), Chapter(<<b2>>)>>)])>>)])
      [] s = 4 -> PyDict([chapters |-> EmptyList,
                          sections |-> PyList(<<Chapter(<<b2, b1>>)>>)])
      [] s = 5 -> PyDict([chapters |-> PyList(<<Chapter(<<b1>>)>>),
                          sections |-> PyList(<<Chapter(<<b2>>)>>)])
      [] s = 6 -> PyDict([chapters |-> PyList(<<Chapter(<<b1>>), b2>>)])
      [] s = 7 -> PyDict([chapters |-> PyList(<<PyDict([title |-> Text(5)]),
                                                PyDict([children |-> PyList(<<
                                                    Chapter(<<b1>>)>>),
                                                        blocks |-> PyList(<<b2>>)])>>)])
      [] s = 8 -> PyDict([chapters |-> PyList(<<PyDict([blocks |-> b1,
                                                        children |-> b2])>>)])

(***************************************************************************)
(* Baseline configurations an optimizer is constructed with.               *)
(***************************************************************************)
\* A configuration with a wider grid gap and a smaller card padding.
WideGapConfig ==
    [DefaultConfig EXCEPT !.grid.gap = 40, !.kpi_card.padding = 10,
                          !.kpi_card.min_height = 110]
\* A configuration an earlier optimization could have produced, its flags off.
TunedConfig ==
    [DefaultConfig EXCEPT !.grid.columns = 3, !.kpi_card.font_size_value = 24,
                          !.kpi_card.padding = 16, !.kpi_card.min_height = 100,
                          !.table.font_size_header = 10, !.table.font_size_body = 9,
                          !.table.cell_padding = 6, !.page.line_height = 18,
                          !.callout.line_height = 18, !.page.paragraph_spacing = 18,
                          !.auto_adjust_font_size = FALSE,
                          !.auto_adjust_grid_columns = FALSE,
                          !.prevent_orphan_headers = FALSE,
                          !.optimize_for_print = FALSE]
Baselines == <<DefaultConfig, WideGapConfig, TunedConfig>>

(***************************************************************************)
(* Persistence.  A JSON value is a record tagged by json: an object holds  *)
(* its members (name and value) in the order written; a number holds its   *)
(* integer part and, when written with a decimal point, its tenths (a      *)
(* float field holds tenths, see line_height); a decoded object is a       *)
(* function from the member names to the decoded values.                   *)
(***************************************************************************)
JsonObject(members) == [json |-> "object", members |-> members]
JsonInt(n) == [json |-> "number", whole |-> n, point |-> FALSE, tenths |-> 0]
\* A float written without its decimal part.
JsonFloatTruncated(t) ==
    [json |-> "number", whole |-> t \div 10, point |-> FALSE, tenths |-> 0]
JsonFloat(t) ==
    [json |-> "number", whole |-> t \div 10, point |-> TRUE, tenths |-> t % 10]
JsonString(s) == [json |-> "string", chars |-> s]
JsonBool(b) == [json |-> IF b THEN "true" ELSE "false"]
Member(name, value) == [name |-> name, value |-> value]

\* The fields of each dataclass, in order, and those declared float.
FieldOrder ==
    [page |-> <<"font_size_base", "font_size_h1", "font_size_h2", "font_size_h3",
                "font_size_h4", "line_height", "paragraph_spacing",
                "section_spacing", "page_padding", "max_content_width">>,
     kpi_card |-> <<"font_size_value", "font_size_label", "font_size_change",
                    "padding", "min_height", "value_max_length">>,
     callout |-> <<"font_size_title", "font_size_content", "padding",
                   "line_height", "max_width">>,
     table |-> <<"font_size_header", "font_size_body", "cell_padding",
                 "max_cell_width", "overflow_strategy">>,
     chart |-> <<"font_size_title", "font_size_label", "min_height",
                 "max_height", "padding">>,
     grid |-> <<"columns", "gap", "responsive_breakpoint">>]
FloatFields == {"line_height"}
StrFields == {"max_width", "overflow_strategy"}
Sections == <<"page", "kpi_card", "callout", "table", "chart", "grid">>
Flags == <<"auto_adjust_font_size", "auto_adjust_grid_columns",
           "prevent_orphan_headers", "optimize_for_print">>

\* json.dump of the value of a dataclass field.
DumpField(f, v) ==
    IF f \in StrFields THEN JsonString(v)
    ELSE IF f \in FloatFields THEN JsonFloat(v)
    ELSE JsonInt(v)

\* json.dump of asdict(layout).
DumpLayout(order, layout) ==
    JsonObject([k \in 1..Len(order) |-> Member(order[k], DumpField(order[k], layout[order[k]]))])

\* json.dump of config.to_dict().
DumpConfig(d) ==
    JsonObject([k \in 1..Len(Sections) |->
                   Member(Sections[k], DumpLayout(FieldOrder[Sections[k]], d[Sections[k]]))]
               \o [k \in 1..Len(Flags) |-> Member(Flags[k], JsonBool(d[Flags[k]]))])

\* json.dump of a log entry: the stats, the adjustment lines and the config.
DumpStats(st) ==
    JsonObject(<<Member("kpi_count", JsonInt(st.kpi_count)),
                 Member("table_count", JsonInt(st.table_count)),
                 Member("chart_count", JsonInt(st.chart_count)),
                 Member("callout_count", JsonInt(st.callout_count)),
                 Member("max_kpi_value_length", JsonInt(st.max_kpi_value_length)),
                 Member("max_table_columns", JsonInt(st.max_table_columns)),
                 Member("max_table_rows", JsonInt(st.max_table_rows)),
                 Member("total_content_length", JsonInt(st.total_content_length)),
                 Member("has_long_text", JsonBool(st.has_long_text))>>)
DumpLogEntry(entry) ==
    JsonObject(<<Member("timestamp", JsonString("now")),
                 Member("document_stats", DumpStats(entry.document_stats)),
                 Member("optimizations",
                        [json |-> "array",
                         items |-> [k \in 1..Len(entry.optimizations) |->
                                       JsonString(entry.optimizations[k])]]),
                 Member("final_config", DumpConfig(entry.final_config))>>)

\* json.load: objects become dicts (functions of the member names; of two
\* members of one name the last wins), scalars their values.
RECURSIVE JsonLoad(_)
JsonLoad(j) ==
    CASE j.json = "object" ->
            [n \in {j.members[k].name : k \in 1..Len(j.members)} |->
                LET last == CHOOSE k \in 1..Len(j.members) :
                                /\ j.members[k].name = n
                                /\ \A l \in (k + 1)..Len(j.members) : j.members[l].name # n
                IN  JsonLoad(j.members[last].value)]
      [] j.json = "array" -> [k \in 1..Len(j.items) |-> JsonLoad(j.items[k])]
      [] j.json = "number" -> IF j.point THEN 10 * j.whole + j.tenths ELSE j.whole
      [] j.json = "string" -> j.chars
      [] j.json = "true" -> TRUE
      [] j.json = "false" -> FALSE

\* Layout(**d) for the dataclass of defaults dflt: the fields given, the
\* defaults for the others; a key that is no field raises TypeError.
LayoutFromDict(dflt, d) ==
    IF DOMAIN d \subseteq DOMAIN dflt
    THEN [raised |-> FALSE,
          value |-> [f \in DOMAIN dflt |-> IF f \in DOMAIN d THEN d[f] ELSE dflt[f]]]
    ELSE [raised |-> TRUE, value |-> dflt]

\* data.get(flag, False)
FlagOfDefaultFalse(data, flag) == IF flag \in DOMAIN data THEN data[flag] ELSE FALSE

\* data.get(flag, True)
FlagOf(data, flag) == IF flag \in DOMAIN data THEN data[flag] ELSE TRUE

\* PDFLayoutConfig.from_dict(data): [raised, value].  A missing section
\* raises KeyError.
FromDict(data) ==
    IF ~({Sections[k] : k \in 1..Len(Sections)} \subseteq DOMAIN data)
    THEN [raised |-> TRUE, value |-> DefaultConfig]
    ELSE LET l == [s \in {Sections[k] : k \in 1..Len(Sections)} |->
                      LayoutFromDict(DefaultConfig[s], data[s])]
         IN  IF \E s \in DOMAIN l : l[s].raised
             THEN [raised |-> TRUE, value |-> DefaultConfig]
             ELSE [raised |-> FALSE,
                   value |-> [page |-> l.page.value, kpi_card |-> l.kpi_card.value,
                              callout |-> l.callout.value, table |-> l.table.value,
                              chart |-> l.chart.value, grid |-> l.grid.value,
                              auto_adjust_font_size |->
                                  FlagOf(data, "auto_adjust_font_size"),
                              auto_adjust_grid_columns |->
                                  FlagOf(data, "auto_adjust_grid_columns"),
                              prevent_orphan_headers |->
                                  FlagOf(data, "prevent_orphan_headers"),
                              optimize_for_print |->
                                  FlagOf(data, "optimize_for_print")]]

\* A declaration of the stylesheet that renders a field of the
\* configuration: its selector and property, the section and field rendered,
\* and the text written for the value.
Declaration(selector, property, section, field, cfg, unit) ==
    [selector |-> selector, property |-> property, section |-> section,
     field |-> field, value |-> DumpField(field, cfg[section][field]), unit |-> unit]

\* generate_pdf_css() for the configuration of value cfg: the declarations
\* that render a field, in order (those of fixed text are left out).
GeneratePdfCss(cfg) ==
    <<Declaration("body", "font-size", "page", "font_size_base", cfg, "px"),
      Declaration("body", "line-height", "page", "line_height", cfg, ""),
      Declaration("main", "padding", "page", "page_padding", cfg, "px"),
      Declaration("main", "max-width", "page", "max_content_width", cfg, "px"),
      Declaration("h1", "font-size", "page", "font_size_h1", cfg, "px"),
      Declaration("h2", "font-size", "page", "font_size_h2", cfg, "px"),
      Declaration("h3", "font-size", "page", "font_size_h3", cfg, "px"),
      Declaration("h4", "font-size", "page", "font_size_h4", cfg, "px"),
      Declaration("p", "margin-bottom", "page", "paragraph_spacing", cfg, "px"),
      Declaration(".chapter", "margin-bottom", "page", "section_spacing", cfg, "px"),
      Declaration(".kpi-grid", "grid-template-columns", "grid", "columns", cfg, "1fr"),
      Declaration(".kpi-grid", "gap", "grid", "gap", cfg, "px"),
      Declaration(".kpi-card", "padding", "kpi_card", "padding", cfg, "px"),
      Declaration(".kpi-card", "min-height", "kpi_card", "min_height", cfg, "px"),
      Declaration(".kpi-card .value", "font-size", "kpi_card", "font_size_value", cfg, "px"),
      Declaration(".kpi-card .label", "font-size", "kpi_card", "font_size_label", cfg, "px"),
      Declaration(".kpi-card .change", "font-size", "kpi_card", "font_size_change", cfg, "px"),
      Declaration(".callout", "padding", "callout", "padding", cfg, "px"),
      Declaration(".callout", "line-height", "callout", "line_height", cfg, ""),
      Declaration(".callout-title", "font-size", "callout", "font_size_title", cfg, "px"),
      Declaration(".callout-content", "font-size", "callout", "font_size_content", cfg, "px"),
      Declaration("th", "font-size", "table", "font_size_header", cfg, "px"),
      Declaration("th", "padding", "table", "cell_padding", cfg, "px"),
      Declaration("td", "font-size", "table", "font_size_body", cfg, "px"),
      Declaration("td", "padding", "table", "cell_padding", cfg, "px"),
      Declaration("td", "max-width", "table", "max_cell_width", cfg, "px"),
      Declaration(".chart-card", "min-height", "chart", "min_height", cfg, "px"),
      Declaration(".chart-card", "max-height", "chart", "max_height", cfg, "px"),
      Declaration(".chart-card", "padding", "chart", "padding", cfg, "px"),
      Declaration(".chart-title", "font-size", "chart", "font_size_title", cfg, "px"),
      Declaration(".hero-kpi", "padding", "kpi_card", "padding", cfg, "px"),
      Declaration(".hero-kpi .label", "font-size", "kpi_card", "font_size_label", cfg, "px"),
      Declaration(".hero-kpi .value", "font-size", "kpi_card", "font_size_value", cfg, "px")>>

\* Files at the path that save_config did not write.
Without(object, names) ==
    JsonObject(SelectSeq(object.members, LAMBDA m : m.name \notin names))
Replaced(object, name, value) ==
    JsonObject([k \in 1..Len(object.members) |->
                   IF object.members[k].name = name THEN Member(name, value)
                   ELSE object.members[k]])
ConfigFile(config) == JsonObject(<<Member("config", config)>>)
\* A configuration whose column count and base font size are 0.
UnvalidatedConfig ==
    [DefaultConfig EXCEPT !.grid.columns = 0, !.page.font_size_base = 0]
StoredFiles ==
    <<\* a config with none of the four flags, and no optimization_log
      ConfigFile(Without(DumpConfig(TunedConfig),
                         {Flags[k] : k \in 1..Len(Flags)})),
      \* a config with two of the flags, its grid holding only its columns
      ConfigFile(Replaced(Without(DumpConfig(TunedConfig),
                                  {"auto_adjust_font_size", "optimize_for_print"}),
                          "grid", JsonObject(<<Member("columns", JsonInt(5))>>))),
      \* a config with 0 columns and a base font size of 0
      ConfigFile(DumpConfig(UnvalidatedConfig)),
      \* a config without its chart section
      ConfigFile(Without(DumpConfig(DefaultConfig), {"chart"})),
      \* a grid with a key that is no field
      ConfigFile(Replaced(DumpConfig(DefaultConfig), "grid",
                          JsonObject(<<Member("columns", JsonInt(2)),
                                       Member("rows", JsonInt(3))>>))),
      \* no config at all
      JsonObject(<<Member("optimization_log", JsonObject(<<>>))>>)>>

(***************************************************************************)
(* The state.                                                              *)
(***************************************************************************)
VARIABLES
    heap,              \* the objects: address -> object
    self_config,       \* self.config: the address of the optimizer's config
    optimization_log,  \* self.optimization_log
    config0,           \* the value of the configuration at construction
    call,              \* the last optimize_for_document call: its argument,
                       \* locals and outcome
    font,              \* the last call of an estimator or solver function
    passes,            \* the completed optimize_for_document calls, in order
    disk,              \* the file at the path of save_config / load_config
    loaded,            \* the last load_config call and the optimizer it returned
    css,               \* the last stylesheet generate_pdf_css returned
    analysis,          \* the last _analyze_document call on a document and on
                       \* a reordering of it
    threads,           \* the optimize_for_document calls in progress on
                       \* threads that share the optimizer
    twin               \* a second optimizer, constructed with the layouts of
                       \* the first and other flags, and its last calls

vars == <<heap, self_config, optimization_log, config0, call, font,
          passes, disk, loaded, css, analysis, threads, twin>>
optimizer_vars == <<heap, self_config, optimization_log, config0, call>>
other_vars == <<passes, disk, loaded, css, analysis, threads, twin>>

NoEntry ==
    [document_stats |-> InitialStats, optimizations |-> <<>>,
     final_config |-> DefaultConfig]
NoCall ==
    [outcome |-> "none", document_ir |-> EmptyDict, stats |-> InitialStats,
     solver |-> NoSolverCall, optimized_config |-> 0, log_entry |-> NoEntry]
NoFontCall ==
    [fn |-> "none", text |-> <<>>, max_width |-> 0, min_font_size |-> 0,
     max_font_size |-> 0, width |-> 0, overflow |-> FALSE, safe |-> <<0, FALSE>>]

\* PDFLayoutOptimizer(config) for a configuration of value v.
Construct(v) ==
    LET n == NewConfig(<<>>, v)
    IN  /\ heap = n.heap
        /\ self_config = n.addr
        /\ optimization_log = <<>>
        /\ config0 = v
        /\ call = NoCall

\* No file at the path.
NoFile == [exists |-> FALSE, written_by |-> "none", content |-> JsonObject(<<>>)]
NoLoad ==
    [outcome |-> "none", source |-> "none", data |-> JsonLoad(JsonObject(<<>>)),
     config |-> DefaultConfig, optimization_log |-> <<>>]
NoAnalysis ==
    [called |-> FALSE, arrangement |-> "none",
     document_ir |-> EmptyDict, reordered |-> EmptyDict,
     result |-> [stats |-> InitialStats, raised |-> FALSE],
     result_reordered |-> [stats |-> InitialStats, raised |-> FALSE]]

\* No second optimizer.
NoTwin ==
    [constructed |-> FALSE, self_config |-> 0, config0 |-> DefaultConfig,
     optimization_log |-> <<>>, outcome |-> "none", optimized_config |-> 0,
     css |-> <<>>]

\* Nothing saved, loaded, rendered or analyzed yet, no thread started and
\* no second optimizer.
Idle ==
    /\ passes = <<>>
    /\ disk = NoFile
    /\ loaded = NoLoad
    /\ css = <<>>
    /\ analysis = NoAnalysis
    /\ threads = <<>>
    /\ twin = NoTwin

Init ==
    /\ \E b \in 1..Len(Baselines) : Construct(Baselines[b])
    /\ font = NoFontCall
    /\ Idle

\* optimize_for_document storing the configuration it returns in self.config.
OptimizeForDocumentKeepingResult(document_ir) ==
    \E own \in {SubSeq(heap, 1, self_config)}, r \in {AnalyzeDocumentIR(document_ir)} :
        IF r.raised
        THEN /\ heap' = own
             /\ call' = [outcome |-> "raised", document_ir |-> document_ir,
                         stats |-> r.stats, solver |-> NoSolverCall,
                         optimized_config |-> 0, log_entry |-> NoEntry]
             /\ UNCHANGED <<self_config, optimization_log, config0>>
        ELSE \E adj \in {AdjustConfigBasedOnStats(own, optimization_log,
                                                  self_config, r.stats)} :
                 /\ heap' = adj.heap
                 /\ self_config' = adj.config
                 /\ optimization_log' = ClearLog(adj.log)
                 /\ call' = [outcome |-> "returned", document_ir |-> document_ir,
                             stats |-> r.stats, solver |-> adj.solver,
                             optimized_config |-> adj.config,
                             log_entry |-> LogOptimization(adj.heap, adj.log,
                                                           r.stats, adj.config)]
                 /\ UNCHANGED config0

\* optimize_for_document(document_ir).  The objects of an earlier result
\* belong to the caller and are no longer followed: the heap keeps the
\* optimizer's own objects and those of this call's result.
OptimizeForDocument(document_ir) ==
    \E own \in {SubSeq(heap, 1, self_config)}, r \in {AnalyzeDocumentIR(document_ir)} :
        IF r.raised
        THEN /\ heap' = own
             /\ call' = [outcome |-> "raised", document_ir |-> document_ir,
                         stats |-> r.stats, solver |-> NoSolverCall,
                         optimized_config |-> 0, log_entry |-> NoEntry]
             /\ UNCHANGED <<self_config, optimization_log, config0>>
        ELSE \E adj \in {AdjustConfigBasedOnStats(own, optimization_log,
                                                  self_config, r.stats)} :
                 /\ heap' = adj.heap
                 /\ optimization_log' = ClearLog(adj.log)
                 /\ call' = [outcome |-> "returned", document_ir |-> document_ir,
                             stats |-> r.stats, solver |-> adj.solver,
                             optimized_config |-> adj.config,
                             log_entry |-> LogOptimization(adj.heap, adj.log,
                                                           r.stats, adj.config)]
                 /\ UNCHANGED <<self_config, config0>>

\* The documents of the calls that follow one another on one optimizer:
\* one or two for each rule of the adjustment engine, for each outcome of
\* the KPI font-size rule, and for a call that raises.
SampleDocuments ==
    [i \in 1..(MaxKpiItems + 1) |-> Document(1, KpiGridBlock(i - 1, 1), PyNone)]
    \o [i \in 1..(MaxColumns + 1) |-> Document(2, TableOfHeaders(i - 1), ChartBlock)]
    \o [i \in 1..Len(ParaLens) |->
           Document(3, ParagraphBlock(ParaLens[i]), CalloutOf(<<ParagraphBlock(200)>>))]
    \o <<EmptyDict,
         Document(1, KpiGridBlock(1, 10), PyNone),
         Document(1, KpiGridBlock(1, 12), PyNone),
         Document(1, KpiGridBlock(3, 18), TableOfHeaders(5)),
         Document(1, KpiGridBlock(3, 19), TableOfHeaders(5)),
         Document(2, KpiGridBlock(5, 25), TableOfCellRows(7)),
         Document(2, KpiGridBlock(5, MaxKpiLen), TableOfCellRows(7)),
         Document(3, KpiGridBlock(7, 11), TableOfListRows(10)),
         Document(4, KpiGridBlock(21, 1), ParagraphBlock(501)),
         Document(4, KpiGridBlock(21, 20), ParagraphOfParts(501)),
         Document(1, ParagraphBlock(500), CalloutOf(<<ParagraphBlock(201)>>)),
         Document(1, KpiGridBlock(4, 25), ChartBlock),
         Document(5, CustomOf(<<KpiGridBlock(2, 12), TableOfHeaders(7)>>), WidgetBlock),
         Document(6, TableOfHeaders(9), Text(1)),
         Document(7, CalloutOf(<<ParagraphBlock(600)>>), Text(1)),
         Document(1, PyDict([type |-> PyStr("kpiGrid", 7), items |-> PyNone]), PyNone)>>

\* A call of optimize_for_document, after any others, on a sample document.
Optimize ==
    /\ \E d \in 1..Len(SampleDocuments) : OptimizeForDocument(SampleDocuments[d])
    /\ UNCHANGED <<font, other_vars>>

\* The first call of optimize_for_document on an optimizer, on any document
\* of the families.
OptimizeAny ==
    /\ call.outcome = "none"
    /\ \E s \in Shapes, i \in 1..Len(PrimaryBlocks), j \in 1..Len(SecondaryBlocks) :
           OptimizeForDocument(Document(s, PrimaryBlocks[i], SecondaryBlocks[j]))
    /\ UNCHANGED <<font, other_vars>>

Next == Optimize

\* Sequences of calls on one optimizer.
Spec == Init /\ [][Next]_vars

NextDocuments == OptimizeAny

\* One call on each document of the families.
SpecDocuments == Init /\ [][NextDocuments]_vars

(***************************************************************************)
(* The estimator and the solver as functions of their arguments.  The      *)
(* arguments are drawn at the start; each action is one call on them, and  *)
(* font holds the function called and what it returned.  The estimator and *)
(* the overflow test are called with font_size = max_font_size.            *)
(***************************************************************************)
Texts == UNION {[1..n -> Chars] : n \in 0..MaxTextLen}

InitFont ==
    /\ Construct(DefaultConfig)
    /\ \E t \in Texts, w \in -1..MaxWidth, lo \in -1..MaxFont, hi \in -1..MaxFont :
           font = [NoFontCall EXCEPT !.text = t, !.max_width = w,
                                     !.min_font_size = lo, !.max_font_size = hi]
    /\ Idle

FontReturned(fn, width, overflow, safe) ==
    [font EXCEPT !.fn = fn, !.width = width, !.overflow = overflow, !.safe = safe]

CallEstimateTextWidth ==
    /\ font' = FontReturned("estimate", EstimateTextWidth(font.text, font.max_font_size),
                        FALSE, <<0, FALSE>>)
    /\ UNCHANGED <<optimizer_vars, other_vars>>

CallCheckTextOverflow ==
    /\ font' = FontReturned("overflow", 0,
                        CheckTextOverflow(font.text, font.max_font_size, font.max_width),
                        <<0, FALSE>>)
    /\ UNCHANGED <<optimizer_vars, other_vars>>

CallCalculateSafeFontSize ==
    /\ font' = FontReturned("solve", 0, FALSE,
                        CalculateSafeFontSize(font.text, font.max_width,
                                              font.min_font_size, font.max_font_size))
    /\ UNCHANGED <<optimizer_vars, other_vars>>

NextFont == CallEstimateTextWidth \/ CallCheckTextOverflow \/ CallCalculateSafeFontSize

SpecFont == InitFont /\ [][NextFont]_vars

(***************************************************************************)
(* The adjustment engine as a function of the baseline and the stats:      *)
(* _adjust_config_based_on_stats called on stats drawn from the values     *)
(* around each threshold of its rules, then called again, with the same    *)
(* stats, on an optimizer constructed with the configuration it returned.  *)
(***************************************************************************)
\* Stats the analyzer can return: a KPI value needs a KPI item, a column
\* needs a table.
StatsSamples ==
    {[InitialStats EXCEPT !.kpi_count = k, !.max_kpi_value_length = n,
                          !.table_count = IF c > 0 THEN 1 ELSE 0,
                          !.max_table_columns = c, !.chart_count = ch,
                          !.has_long_text = l] :
        k \in 0..MaxKpiItems \cup {ManyBlocks + 1},
        n \in {0, KpiLongValue, KpiLongValue + 1, 18, 19, MaxKpiLen},
        c \in {0} \cup 4..MaxColumns,
        ch \in {0, ManyBlocks},
        l \in BOOLEAN}

\* self._adjust_config_based_on_stats(stats) on the optimizer, whose
\* optimization_log the call leaves holding the lines of its rules.
AdjustConfig(stats) ==
    \E adj \in {AdjustConfigBasedOnStats(heap, optimization_log, self_config, stats)} :
        /\ heap' = adj.heap
        /\ optimization_log' = adj.log
        /\ call' = [outcome |-> "adjusted", document_ir |-> EmptyDict,
                    stats |-> stats, solver |-> adj.solver,
                    optimized_config |-> adj.config, log_entry |-> NoEntry]
        /\ UNCHANGED <<self_config, config0>>

Adjust ==
    /\ call.outcome = "none"
    /\ \E stats \in StatsSamples :
           /\ stats.max_kpi_value_length > 0 => stats.kpi_count > 0
           /\ AdjustConfig(stats)
    /\ UNCHANGED <<font, other_vars>>

\* PDFLayoutOptimizer(config) on the configuration the call returned
\* (self.config is that object, optimization_log a new empty list), and
\* _adjust_config_based_on_stats on it with the same stats.
Readjust ==
    /\ call.outcome = "adjusted"
    /\ \E adj \in {AdjustConfigBasedOnStats(heap, <<>>, call.optimized_config,
                                            call.stats)} :
           /\ heap' = adj.heap
           /\ self_config' = call.optimized_config
           /\ config0' = ToDict(heap, call.optimized_config)
           /\ optimization_log' = adj.log
           /\ call' = [call EXCEPT !.outcome = "readjusted", !.solver = adj.solver,
                                   !.optimized_config = adj.config]
    /\ UNCHANGED <<font, other_vars>>

NextAdjust == Adjust \/ Readjust

SpecAdjust == Init /\ [][NextAdjust]_vars

(***************************************************************************)
(* Sequences of passes on one optimizer, each completed pass recorded:     *)
(* its outcome, the stats of its document, the configuration it returned   *)
(* (by value) and the adjustment lines of its log entry.                   *)
(***************************************************************************)
MaxPasses == 3

\* Documents of the passes: pairs of different documents with equal stats
\* (1 and 2, 4 and 5, 6 and 7), and one on which the analysis raises.
PassDocuments ==
    <<Document(1, KpiGridBlock(3, 18), TableOfHeaders(5)),
      Document(2, KpiGridBlock(3, 18), TableOfHeaders(5)),
      Document(1, KpiGridBlock(1, 12), PyNone),
      Document(4, KpiGridBlock(ManyBlocks + 1, 20), ParagraphOfParts(251)),
      Document(1, KpiGridBlock(ManyBlocks + 1, 20), ParagraphBlock(501)),
      EmptyDict,
      PyDict([sections |-> EmptyList]),
      Document(6, TableOfHeaders(9), Text(1))>>

OptimizeRecorded ==
    /\ Len(passes) < MaxPasses
    /\ \E d \in 1..Len(PassDocuments) : OptimizeForDocument(PassDocuments[d])
    /\ passes' = Append(passes,
                        [outcome |-> call'.outcome, stats |-> call'.stats,
                         config |-> IF call'.outcome = "returned"
                                    THEN ToDict(heap', call'.optimized_config)
                                    ELSE DefaultConfig,
                         optimizations |-> call'.log_entry.optimizations])
    /\ UNCHANGED <<font, disk, loaded, css, analysis, threads, twin>>

NextPasses == OptimizeRecorded

SpecPasses == Init /\ [][NextPasses]_vars

(***************************************************************************)
(* Saving, loading and rendering.  The optimizer is constructed with a     *)
(* baseline, validated or not; the path holds no file or one that          *)
(* save_config did not write.  load_config returns a new optimizer, kept   *)
(* in loaded by the value of its configuration.                            *)
(***************************************************************************)
PersistBaselines == Baselines \o <<UnvalidatedConfig>>

InitPersist ==
    /\ \E b \in 1..Len(PersistBaselines) : Construct(PersistBaselines[b])
    /\ font = NoFontCall
    /\ passes = <<>>
    /\ \/ disk = NoFile
       \/ \E f \in 1..Len(StoredFiles) :
              disk = [exists |-> TRUE, written_by |-> "other", content |-> StoredFiles[f]]
    /\ loaded = NoLoad
    /\ css = <<>>
    /\ analysis = NoAnalysis
    /\ threads = <<>>
    /\ twin = NoTwin

PersistDocuments ==
    <<EmptyDict,
      Document(1, KpiGridBlock(3, 19), TableOfHeaders(9)),
      Document(6, TableOfHeaders(9), Text(1))>>

\* optimize_for_document, whose log entry a later save_config may be given.
OptimizeBeforeSave ==
    /\ \E d \in 1..Len(PersistDocuments) : OptimizeForDocument(PersistDocuments[d])
    /\ UNCHANGED <<font, other_vars>>

\* save_config(path, log_entry): log_entry None, an empty dict, or the
\* entry of the last pass.
SaveConfig ==
    /\ \E log_entry \in {"None", "empty", "entry"} :
           /\ log_entry = "entry" => call.outcome = "returned"
           /\ disk' = [exists |-> TRUE, written_by |-> "save_config",
                       content |->
                           JsonObject(<<Member("config",
                                               DumpConfig(ToDict(heap, self_config)))>>
                                      \o IF log_entry = "entry"
                                         THEN <<Member("optimization_log",
                                                       DumpLogEntry(call.log_entry))>>
                                         ELSE <<>>)]
    /\ UNCHANGED <<optimizer_vars, font, passes, loaded, css, analysis, threads, twin>>

LoadRaised(data) ==
    [outcome |-> "raised", source |-> disk.written_by, data |-> data,
     config |-> DefaultConfig, optimization_log |-> <<>>]

\* PDFLayoutOptimizer.load_config(path)
LoadConfig ==
    /\ loaded' =
          IF ~disk.exists
          THEN [outcome |-> "returned", source |-> "none",
                data |-> JsonLoad(JsonObject(<<>>)),
                config |-> DefaultConfig, optimization_log |-> <<>>]
          ELSE LET data == JsonLoad(disk.content)
               IN  IF "config" \notin DOMAIN data THEN LoadRaised(data)
                   ELSE LET c == FromDict(data.config)
                        IN  IF c.raised THEN LoadRaised(data)
                            ELSE [outcome |-> "returned", source |-> disk.written_by,
                                  data |-> data, config |-> c.value,
                                  optimization_log |-> <<>>]
    /\ UNCHANGED <<optimizer_vars, font, passes, disk, css, analysis, threads, twin>>

\* generate_pdf_css()
GenerateCss ==
    /\ css' = GeneratePdfCss(ToDict(heap, self_config))
    /\ UNCHANGED <<optimizer_vars, font, passes, disk, loaded, analysis, threads, twin>>

NextPersist == OptimizeBeforeSave \/ SaveConfig \/ LoadConfig \/ GenerateCss

SpecPersist == InitPersist /\ [][NextPersist]_vars

(***************************************************************************)
(* The analyzer as a function of the document: _analyze_document on a      *)
(* document holding three blocks in one list, and on the same document     *)
(* with that list in another order.  The list is the block list of a       *)
(* chapter, the chapter list of the root (one block in each chapter), the  *)
(* children of a chapter, or the nested block list of a block of each      *)
(* type.                                                                   *)
(***************************************************************************)
OrderBlocks ==
    <<KpiGridBlock(2, 5), KpiGridBlock(1, 12), TableOfHeaders(5), TableOfCellRows(9),
      ParagraphBlock(501), ParagraphBlock(300),
      CalloutOf(<<ParagraphBlock(201), WidgetBlock>>), ChartBlock, Text(1),
      PyDict([type |-> PyStr("table", 5), rows |-> PyInt(5)])>>

EnclosingTypes ==
    {"callout", "table", "kpiGrid", "paragraph", "chart", "custom"}
Arrangements == {"blocks", "chapters", "children"} \cup EnclosingTypes

\* A block of type t whose nested block list is bs.
Enclosing(t, bs) == PyDict([type |-> PyStr(t, 5), blocks |-> PyList(bs)])

\* The document that holds the list bs arranged as a.
Arranged(a, bs) ==
    CASE a = "blocks" -> PyDict([chapters |-> PyList(<<Chapter(bs)>>)])
      [] a = "chapters" ->
            PyDict([chapters |-> PyList([i \in 1..Len(bs) |-> Chapter(<<bs[i]>>)])])
      [] a = "children" ->
            PyDict([sections |-> PyList(<<
                PyDict([blocks |-> PyList(<<ChartBlock>>),
                        children |-> PyList([i \in 1..Len(bs) |->
                                        Chapter(<<bs[i]>>)])])>>)])
      [] OTHER -> PyDict([chapters |-> PyList(<<Chapter(<<Enclosing(a, bs)>>)>>)])

\* The orders of a list of three.
Orders == {p \in [1..3 -> 1..3] : \A i, j \in 1..3 : p[i] = p[j] => i = j}
Reordered(bs, p) == [i \in 1..Len(bs) |-> bs[p[i]]]

AnalyzeDocumentAndReordering ==
    /\ ~analysis.called
    /\ \E a \in Arrangements, p \in Orders,
          i, j, k \in 1..Len(OrderBlocks) :
          \E bs \in {<<OrderBlocks[i], OrderBlocks[j], OrderBlocks[k]>>} :
              analysis' =
                  [called |-> TRUE, arrangement |-> a,
                   document_ir |-> Arranged(a, bs),
                   reordered |-> Arranged(a, Reordered(bs, p)),
                   result |-> AnalyzeDocumentIR(Arranged(a, bs)),
                   result_reordered |-> AnalyzeDocumentIR(Arranged(a, Reordered(bs, p)))]
    /\ UNCHANGED <<optimizer_vars, font, passes, disk, loaded, css, threads, twin>>

NextAnalyze == AnalyzeDocumentAndReordering

InitAnalyze ==
    /\ Construct(DefaultConfig)
    /\ font = NoFontCall
    /\ Idle

SpecAnalyze == InitAnalyze /\ [][NextAnalyze]_vars

(***************************************************************************)
(* Two threads that call optimize_for_document on one optimizer.  They     *)
(* share self.config (its objects in the heap) and self.optimization_log;  *)
(* the document, the stats and the config being adjusted are local to each *)
(* call.  A step of a thread is the analysis, the copy of the baseline,    *)
(* one rule of the adjustment engine (its writes to the local config and   *)
(* its append to the log), the building of the log entry, the clearing of  *)
(* the log, each taken whole: steps of the two threads interleave in any   *)
(* order.                                                                  *)
(***************************************************************************)
Threads == {1, 2}

NotStarted ==
    [pc |-> "start", document_ir |-> EmptyDict, stats |-> InitialStats,
     config |-> 0, solver |-> NoSolverCall, optimizations |-> <<>>]

ThreadDocuments ==
    <<EmptyDict,
      Document(1, KpiGridBlock(3, 19), TableOfHeaders(9)),
      Document(1, KpiGridBlock(ManyBlocks + 1, 1), ParagraphBlock(501)),
      Document(6, TableOfHeaders(9), Text(1))>>

InitThreads ==
    /\ \E b \in 1..Len(Baselines) : Construct(Baselines[b])
    /\ font = NoFontCall
    /\ passes = <<>>
    /\ disk = NoFile
    /\ loaded = NoLoad
    /\ css = <<>>
    /\ analysis = NoAnalysis
    /\ threads = [t \in Threads |-> NotStarted]
    /\ twin = NoTwin

thread_frame == <<self_config, config0, call, font, passes, disk, loaded, css,
                  analysis, twin>>

\* stats = self._analyze_document(document_ir)
ThreadAnalyze(t) ==
    /\ threads[t].pc = "start"
    /\ \E d \in 1..Len(ThreadDocuments) :
           \E r \in {AnalyzeDocumentIR(ThreadDocuments[d])} :
               threads' = [threads EXCEPT ![t] =
                              [@ EXCEPT !.pc = IF r.raised THEN "raised" ELSE "copy",
                                        !.document_ir = ThreadDocuments[d],
                                        !.stats = r.stats]]
    /\ UNCHANGED <<heap, optimization_log, thread_frame>>

\* config = PDFLayoutConfig(...), the first statement of
\* _adjust_config_based_on_stats.
ThreadCopy(t) ==
    /\ threads[t].pc = "copy"
    /\ \E cp \in {CopyConfig(heap, self_config)} :
           /\ heap' = cp.heap
           /\ threads' = [threads EXCEPT ![t] = [@ EXCEPT !.pc = "kpi", !.config = cp.addr]]
    /\ UNCHANGED <<optimization_log, thread_frame>>

\* The rules in order, and the step after the last.
RuleOrder == <<"kpi", "grid", "table", "long_text", "many_blocks", "log">>
After(rule) == RuleOrder[1 + CHOOSE k \in 1..5 : RuleOrder[k] = rule]

\* Each rule applied to the baseline's own objects.
ApplyRuleToBaseline(rule, p, c, stats) ==
    CASE rule = "kpi" -> AdjustKpiFontSize(p, self_config, stats)
      [] rule = "grid" -> AdjustGrid(p, self_config, stats)
      [] rule = "table" -> AdjustTable(p, self_config, stats)
      [] rule = "long_text" -> AdjustLongText(p, self_config, stats)
      [] rule = "many_blocks" -> AdjustManyBlocks(p, self_config, stats)

\* One rule of _adjust_config_based_on_stats on the config at c.
ApplyRule(rule, p, c, stats) ==
    CASE rule = "kpi" -> AdjustKpiFontSize(p, c, stats)
      [] rule = "grid" -> AdjustGrid(p, c, stats)
      [] rule = "table" -> AdjustTable(p, c, stats)
      [] rule = "long_text" -> AdjustLongText(p, c, stats)
      [] rule = "many_blocks" -> AdjustManyBlocks(p, c, stats)

ThreadAdjust(t) ==
    /\ threads[t].pc \in {"kpi", "grid", "table", "long_text", "many_blocks"}
    /\ \E q \in {ApplyRule(threads[t].pc,
                           [heap |-> heap, log |-> optimization_log,
                            solver |-> threads[t].solver],
                           threads[t].config, threads[t].stats)} :
           /\ heap' = q.heap
           /\ optimization_log' = q.log
           /\ threads' = [threads EXCEPT ![t] =
                             [@ EXCEPT !.pc = After(threads[t].pc), !.solver = q.solver]]
    /\ UNCHANGED thread_frame

\* _log_optimization up to the building of log_entry, which copies the log.
ThreadLogOptimization(t) ==
    /\ threads[t].pc = "log"
    /\ threads' = [threads EXCEPT ![t] =
                      [@ EXCEPT !.pc = "clear", !.optimizations = optimization_log]]
    /\ UNCHANGED <<heap, optimization_log, thread_frame>>

\* self.optimization_log.clear(), and the return of optimized_config.
ThreadClearLog(t) ==
    /\ threads[t].pc = "clear"
    /\ optimization_log' = ClearLog(optimization_log)
    /\ threads' = [threads EXCEPT ![t] = [@ EXCEPT !.pc = "done"]]
    /\ UNCHANGED <<heap, thread_frame>>

NextThreads ==
    \E t \in Threads :
        \/ ThreadAnalyze(t)
        \/ ThreadCopy(t)
        \/ ThreadAdjust(t)
        \/ ThreadLogOptimization(t)
        \/ ThreadClearLog(t)

SpecThreads == InitThreads /\ [][NextThreads]_vars

(***************************************************************************)
(* Two optimizers whose baselines differ only in the four flags: the       *)
(* second is constructed with the layouts of the first and other flags;    *)
(* _adjust_config_based_on_stats is called on both with the same stats and *)
(* generate_pdf_css on both.                                               *)
(***************************************************************************)
FlagValues == [1..Len(Flags) -> BOOLEAN]

\* The configuration v with the flags set to f, in the order of Flags.
WithFlags(v, f) ==
    [v EXCEPT !.auto_adjust_font_size = f[1], !.auto_adjust_grid_columns = f[2],
              !.prevent_orphan_headers = f[3], !.optimize_for_print = f[4]]

\* PDFLayoutOptimizer(config) for the second optimizer.
ConstructTwin ==
    /\ ~twin.constructed
    /\ \E f \in FlagValues :
           /\ WithFlags(config0, f) # config0
           /\ \E n \in {NewConfig(heap, WithFlags(config0, f))} :
                  /\ heap' = n.heap
                  /\ twin' = [NoTwin EXCEPT !.constructed = TRUE,
                                            !.self_config = n.addr,
                                            !.config0 = WithFlags(config0, f)]
    /\ UNCHANGED <<self_config, optimization_log, config0, call, font, passes,
                   disk, loaded, css, analysis, threads>>

\* Stats that trigger each rule of the adjustment engine, and stats that
\* trigger none.
FlagStats ==
    {[InitialStats EXCEPT !.kpi_count = k, !.max_kpi_value_length = n,
                          !.table_count = IF c > 0 THEN 1 ELSE 0,
                          !.max_table_columns = c, !.chart_count = ch,
                          !.has_long_text = l] :
        k \in {0, 3, 5, ManyBlocks + 1},
        n \in {0, KpiLongValue + 1, MaxKpiLen},
        c \in {0, MaxColumns},
        ch \in {0, ManyBlocks},
        l \in BOOLEAN}

\* _adjust_config_based_on_stats on the first optimizer, once both exist.
AdjustFirst ==
    /\ twin.constructed
    /\ call.outcome = "none"
    /\ \E stats \in FlagStats :
           /\ stats.max_kpi_value_length > 0 => stats.kpi_count > 0
           /\ AdjustConfig(stats)
    /\ UNCHANGED <<font, other_vars>>

\* _adjust_config_based_on_stats on the second optimizer, with the stats of
\* the call on the first.
AdjustTwin ==
    /\ twin.constructed
    /\ twin.outcome = "none"
    /\ call.outcome = "adjusted"
    /\ \E adj \in {AdjustConfigBasedOnStats(heap, twin.optimization_log,
                                            twin.self_config, call.stats)} :
           /\ heap' = adj.heap
           /\ twin' = [twin EXCEPT !.outcome = "adjusted",
                                   !.optimization_log = adj.log,
                                   !.optimized_config = adj.config]
    /\ UNCHANGED <<self_config, optimization_log, config0, call, font, passes,
                   disk, loaded, css, analysis, threads>>

\* generate_pdf_css() on the first optimizer, once.
GenerateCssOnce ==
    /\ css = <<>>
    /\ GenerateCss

\* generate_pdf_css() on the second optimizer.
GenerateCssTwin ==
    /\ twin.constructed
    /\ twin.css = <<>>
    /\ twin' = [twin EXCEPT !.css = GeneratePdfCss(ToDict(heap, twin.self_config))]
    /\ UNCHANGED <<optimizer_vars, font, passes, disk, loaded, css, analysis, threads>>

NextFlags ==
    ConstructTwin \/ AdjustFirst \/ AdjustTwin \/ GenerateCssOnce \/ GenerateCssTwin

SpecFlags == Init /\ [][NextFlags]_vars

(***************************************************************************)
(* Passes followed by save_config or generate_pdf_css on the same          *)
(* optimizer, and optimizers constructed with the configuration a pass     *)
(* returned.  config0 is the value of the configuration the current        *)
(* optimizer was constructed with.                                         *)
(***************************************************************************)
MaxOptimizers == 2

\* PDFLayoutOptimizer(config) on the configuration the last pass returned:
\* self.config is that object, optimization_log a new empty list.
ConstructWithResult ==
    /\ call.outcome = "returned"
    /\ self_config < 7 * MaxOptimizers
    /\ self_config' = call.optimized_config
    /\ config0' = ToDict(heap, call.optimized_config)
    /\ optimization_log' = <<>>
    /\ call' = NoCall
    /\ UNCHANGED <<heap, font, other_vars>>

NextRender == OptimizeBeforeSave \/ SaveConfig \/ GenerateCss \/ ConstructWithResult

SpecRender == Init /\ [][NextRender]_vars

(***************************************************************************)
(* Properties.                                                             *)
(***************************************************************************)
CallReturned == call.outcome = "returned"
\* The configuration the last call returned, and the optimizer's own, by value.
Out == ToDict(heap, call.optimized_config)
Own == ToDict(heap, self_config)
\* The addresses of a config object and of its six layout objects.
ObjectsOf(c) ==
    {c, heap[c].page, heap[c].kpi_card, heap[c].callout, heap[c].table,
     heap[c].chart, heap[c].grid}
\* Whether the log entry of the last call holds a line of one of the messages.
Logged(msgs) ==
    \E k \in 1..Len(call.log_entry.optimizations) :
        call.log_entry.optimizations[k].msg \in msgs

\* C1: after any sequence of optimize_for_document calls the optimizer's
\* configuration (six layout objects and four flags) equals, field for
\* field, what it was at construction, self.config is still the same
\* object, and every returned configuration is made of seven objects of its
\* own, none shared with the baseline.
BaselineNeverMutated ==
    /\ Own = config0
    /\ self_config = 7
    /\ CallReturned =>
          /\ ObjectsOf(call.optimized_config) \cap ObjectsOf(self_config) = {}
          /\ Cardinality(ObjectsOf(call.optimized_config)) = 7
          /\ call.log_entry.final_config = Out

\* A pass that changed its copy (the returned configuration differs from the
\* baseline) while the baseline kept its construction value.
BaselineKeptWhileCopyAdjusted ==
    /\ CallReturned
    /\ Out # config0
    /\ Out.grid.columns # config0.grid.columns
    /\ Own = config0

\* C2: optimize_for_document never ends in an error, whatever the document.
OptimizeNeverRaises == call.outcome # "raised"

Fits(text, size, max_width) == EstimateTextWidth(text, size) <= 100 * max_width
FittingSizes(text, max_width, lo, hi) == {z \in lo..hi : Fits(text, z, max_width)}
SetMax(S) == CHOOSE m \in S : \A z \in S : z <= m

\* C3: for a non-empty text and min_font_size <= max_font_size the solver
\* returns the largest size of the range whose estimated width does not
\* exceed max_width, with adjusted = (size < max_font_size), and
\* (min_font_size, TRUE) when no size fits; so the size lies in the range and
\* a size under max_font_size comes with adjusted.  For the empty text it
\* returns (max_font_size, FALSE).
SolverReturnsLargestFit ==
    font.fn = "solve" =>
        LET lo == font.min_font_size
            hi == font.max_font_size
            size == font.safe[1]
            adjusted == font.safe[2]
            fitting == FittingSizes(font.text, font.max_width, lo, hi)
        IN  /\ font.text = <<>> => font.safe = <<hi, FALSE>>
            /\ (font.text # <<>> /\ lo <= hi) =>
                  /\ fitting = {} => font.safe = <<lo, TRUE>>
                  /\ fitting # {} => /\ size = SetMax(fitting)
                                     /\ adjusted = (size < hi)
                  /\ lo <= size /\ size <= hi
                  /\ size < hi => adjusted

\* The solver shrank a non-empty text to a size strictly inside the range.
SolverShrankInsideRange ==
    /\ font.fn = "solve"
    /\ font.text # <<>>
    /\ font.min_font_size < font.safe[1]
    /\ font.safe[1] < font.max_font_size
    /\ font.safe[2]

\* C4 as stated: for every text (the empty one included), size S and width
\* W (zero and negative included), the solver on (T, W, S, S) returns
\* (S, _check_text_overflow(T, S, W)).
EqualBoundsIsOverflowTest ==
    (font.fn = "solve" /\ font.min_font_size = font.max_font_size) =>
        font.safe = <<font.max_font_size,
                      CheckTextOverflow(font.text, font.max_font_size, font.max_width)>>

\* C4 as amended: the same for every non-empty text, and for the empty text
\* under a width W >= 0; for the empty text under a negative width the
\* solver returns (S, FALSE) although the overflow test is TRUE.
EqualBoundsIsOverflowTestUnlessEmptyNegative ==
    (font.fn = "solve" /\ font.min_font_size = font.max_font_size) =>
        IF font.text = <<>> /\ font.max_width < 0
        THEN /\ font.safe = <<font.max_font_size, FALSE>>
             /\ CheckTextOverflow(font.text, font.max_font_size, font.max_width)
        ELSE font.safe = <<font.max_font_size,
                           CheckTextOverflow(font.text, font.max_font_size,
                                             font.max_width)>>

\* Equal bounds, a non-empty text that overflows at S: (S, TRUE).
EqualBoundsOverflowing ==
    /\ font.fn = "solve"
    /\ font.min_font_size = font.max_font_size
    /\ font.text # <<>>
    /\ CheckTextOverflow(font.text, font.max_font_size, font.max_width)
    /\ font.safe = <<font.max_font_size, TRUE>>

CountOf(text, c) == Cardinality({k \in 1..Len(text) : text[k] = c})

\* C5: the estimated width is the font size times the sum of the factors of
\* the characters, a character of U+4E00..U+9FFF counting 1.0, any other
\* alphabetic one 0.55, a digit 0.6, anything else 0.4 (here times 100); it
\* is 0 for the empty text and never negative for a font size >= 0.
WidthIsSumOfClassFactors ==
    font.fn = "estimate" =>
        /\ font.width = font.max_font_size *
                           (100 * CountOf(font.text, "zh") + 55 * CountOf(font.text, "al")
                            + 60 * CountOf(font.text, "dg") + 40 * CountOf(font.text, "sy"))
        /\ font.text = <<>> => font.width = 0
        /\ font.max_font_size >= 0 => font.width >= 0

\* The width of a CJK character followed by a Latin letter at size 2:
\* 2 * (1.0 + 0.55) = 3.1.
WidthOfMixedText ==
    /\ font.fn = "estimate"
    /\ font.text = <<"zh", "al">>
    /\ font.max_font_size = 2
    /\ font.width = 310

GridMessages == {"kpi_many", "kpi_medium", "kpi_few"}

\* C6 as stated: kpi_count > 6 gives 3 columns, min_height 100, padding 16;
\* 4 < kpi_count <= 6 gives 2 columns, padding 18; 0 < kpi_count <= 2 gives
\* 1 column, padding 24; kpi_count of 0, 3 and 4 leaves grid.columns,
\* kpi_card.padding and kpi_card.min_height at baseline and logs no grid line.
GridRuleSkipsEmptyDocument ==
    CallReturned =>
        LET k == call.stats.kpi_count
        IN  /\ k > 6 => /\ Out.grid.columns = 3
                        /\ Out.kpi_card.min_height = 100
                        /\ Out.kpi_card.padding = 16
            /\ (4 < k /\ k <= 6) => /\ Out.grid.columns = 2
                                    /\ Out.kpi_card.padding = 18
            /\ (0 < k /\ k <= 2) => /\ Out.grid.columns = 1
                                    /\ Out.kpi_card.padding = 24
            /\ k \in {0, 3, 4} => /\ Out.grid.columns = config0.grid.columns
                                  /\ Out.kpi_card.padding = config0.kpi_card.padding
                                  /\ Out.kpi_card.min_height = config0.kpi_card.min_height
                                  /\ ~Logged(GridMessages)

\* C6 as amended: the last branch is kpi_count <= 2, 0 included: a document
\* with no KPI item gets 1 column, padding 24 and a grid log line; only
\* kpi_count of 3 and 4 leaves the three fields at baseline with no grid log
\* line.  (min_height changes in the first branch only.)
GridRuleOfKpiCount ==
    CallReturned =>
        LET k == call.stats.kpi_count
        IN  /\ k > 6 => /\ Out.grid.columns = 3
                        /\ Out.kpi_card.min_height = 100
                        /\ Out.kpi_card.padding = 16
                        /\ Logged({"kpi_many"})
            /\ (4 < k /\ k <= 6) => /\ Out.grid.columns = 2
                                    /\ Out.kpi_card.padding = 18
                                    /\ Out.kpi_card.min_height = config0.kpi_card.min_height
                                    /\ Logged({"kpi_medium"})
            /\ k <= 2 => /\ Out.grid.columns = 1
                         /\ Out.kpi_card.padding = 24
                         /\ Out.kpi_card.min_height = config0.kpi_card.min_height
                         /\ Logged({"kpi_few"})
            /\ k \in {3, 4} => /\ Out.grid.columns = config0.grid.columns
                               /\ Out.kpi_card.padding = config0.kpi_card.padding
                               /\ Out.kpi_card.min_height = config0.kpi_card.min_height
                               /\ ~Logged(GridMessages)

\* A document with no KPI item under a two-column baseline comes out with
\* one column and padding 24.
EmptyDocumentGetsOneColumn ==
    /\ CallReturned
    /\ call.stats.kpi_count = 0
    /\ config0.grid.columns = 2
    /\ Out.grid.columns = 1
    /\ Out.kpi_card.padding = 24

\* C7: for max_kpi_value_length n > 0 the engine runs the solver on n digits
\* with bounds [18, 32]; if the solver reports adjusted the output
\* kpi_card.font_size_value is the solved size, otherwise if n > 10 it is
\* min(28, solved size), otherwise (n <= 10, or n = 0) it is the baseline's.
\* With the default baseline, n = 12 gives solved (32, FALSE) and 28.
KpiValueFontSizeRule ==
    CallReturned =>
        LET n == call.stats.max_kpi_value_length
            sv == call.solver
        IN  /\ sv.called = (n > 0)
            /\ n > 0 => /\ sv.text_len = n
                        /\ sv.min_font_size = 18
                        /\ sv.max_font_size = 32
            /\ Out.kpi_card.font_size_value =
                  IF n > 0 /\ sv.needs_adjustment THEN sv.safe_font_size
                  ELSE IF n > 10 THEN Min(28, sv.safe_font_size)
                  ELSE config0.kpi_card.font_size_value
            /\ (n = 12 /\ config0 = DefaultConfig) =>
                  /\ sv.safe_font_size = 32
                  /\ ~sv.needs_adjustment
                  /\ Out.kpi_card.font_size_value = 28

\* The default baseline and a longest KPI value of 12 digits: 28.
TwelveDigitsGive28 ==
    /\ CallReturned
    /\ config0 = DefaultConfig
    /\ call.stats.max_kpi_value_length = 12
    /\ call.stats.kpi_count = 1
    /\ ~call.solver.needs_adjustment
    /\ Out.kpi_card.font_size_value = 28

\* C8 as stated: the width passed to the solver is
\* (800 - grid.gap) / 2 - 2 * kpi_card.padding of the baseline.
SolverWidthFromBaseline ==
    (CallReturned /\ call.solver.called) =>
        call.solver.max_width =
            (800 - config0.grid.gap) \div 2 - 2 * config0.kpi_card.padding

\* C8 as amended: the width passed to the solver is the constant
\* (800 - 20) // 2 - 40 = 350 whatever the baseline's grid.gap and
\* kpi_card.padding, so the solved size depends on the stats alone.
SolverWidthIs350 ==
    (CallReturned /\ call.solver.called) =>
        /\ call.solver.max_width = 350
        /\ <<call.solver.safe_font_size, call.solver.needs_adjustment>> =
               CalculateSafeFontSize(Nines(call.stats.max_kpi_value_length), 350, 18, 32)

\* The solver called with 350 under a baseline of gap 40 and padding 10.
SolverWidth350UnderWideGap ==
    /\ CallReturned
    /\ call.solver.called
    /\ config0.grid.gap = 40
    /\ config0.kpi_card.padding = 10
    /\ call.solver.max_width = 350

(***************************************************************************)
(* The blocks of a document, gathered from the tree: the blocks of the     *)
(* chapters of the root list the analyzer reads (chapters, or sections     *)
(* when chapters is missing or empty), of their child chapters, and of the *)
(* "blocks" lists of blocks.                                               *)
(***************************************************************************)
ItemsOf(v) == IF Truthy(v) /\ Iterable(v) THEN IterItems(v) ELSE <<>>
Records(items) == {items[k] : k \in {k \in 1..Len(items) : IsDict(items[k])}}

RECURSIVE BlocksUnder(_)
\* The records of a block list and those nested in them.
BlocksUnder(items) ==
    LET here == Records(items)
    IN  here \cup UNION {BlocksUnder(ItemsOf(Get(b, "blocks", EmptyList))) : b \in here}

RECURSIVE BlocksOfChapters(_)
BlocksOfChapters(chapters) ==
    UNION {BlocksUnder(ItemsOf(Get(ch, "blocks", EmptyList)))
             \cup BlocksOfChapters(ItemsOf(Get(ch, "children", EmptyList)))
           : ch \in Records(chapters)}

RootChapters(doc) ==
    IF Truthy(Get(doc, "chapters", EmptyList)) THEN Get(doc, "chapters", EmptyList)
    ELSE Get(doc, "sections", EmptyList)
BlocksOfDocument(doc) == BlocksOfChapters(ItemsOf(RootChapters(doc)))
OfType(blocks, tag) == {b \in blocks : EqStr(TypeOf(b), tag)}

\* The column count of a table: the cells of its first row when that row is
\* a record, its headers otherwise.
ColumnsOf(t) ==
    LET rows == Get(t, "rows", EmptyList)
    IN  IF Truthy(rows) /\ IsDict(First(rows))
        THEN PyLen(Get(First(rows), "cells", EmptyList))
        ELSE PyLen(Get(t, "headers", EmptyList))
WidestTable(doc) ==
    LET tables == OfType(BlocksOfDocument(doc), "table")
    IN  IF tables = {} THEN 0 ELSE SetMax({ColumnsOf(t) : t \in tables})

\* C9: max_table_columns c > 8 gives table header/body font sizes 10/9 and
\* cell_padding 6; 6 < c <= 8 gives 11/10 and 8; 4 < c <= 6 gives 12/11 and
\* 10; c <= 4 leaves the three fields at baseline.  A document whose widest
\* table has 10 columns comes out with 10/9/6.
TableRuleOfColumns ==
    CallReturned =>
        LET c == call.stats.max_table_columns
            t == Out.table
            got == <<t.font_size_header, t.font_size_body, t.cell_padding>>
        IN  /\ c > 8 => got = <<10, 9, 6>>
            /\ (6 < c /\ c <= 8) => got = <<11, 10, 8>>
            /\ (4 < c /\ c <= 6) => got = <<12, 11, 10>>
            /\ c <= 4 => got = <<config0.table.font_size_header,
                                 config0.table.font_size_body,
                                 config0.table.cell_padding>>
            /\ WidestTable(call.document_ir) = 10 => got = <<10, 9, 6>>

\* A document whose widest table has 10 columns, under a baseline of 13/12/12.
TenColumnTableShrunk ==
    /\ CallReturned
    /\ WidestTable(call.document_ir) = 10
    /\ config0.table.font_size_header = 13
    /\ Out.table.font_size_header = 10
    /\ Out.table.font_size_body = 9
    /\ Out.table.cell_padding = 6

\* The length of a paragraph's concatenated inline text.
TextLenOf(b) == ExtractTextFromParagraph(b).len
\* The document holds a paragraph of more than 500 characters, or a
\* paragraph of more than 200 directly in the block list of a callout.
HasLongText(doc) ==
    LET blocks == BlocksOfDocument(doc)
    IN  \/ \E b \in OfType(blocks, "paragraph") : TextLenOf(b) > 500
        \/ \E co \in OfType(blocks, "callout") :
               \E cb \in OfType(Records(ItemsOf(Get(co, "blocks", EmptyList))), "paragraph") :
                   TextLenOf(cb) > 200

\* C10: optimize_for_document sets page.line_height = 1.8,
\* callout.line_height = 1.8 and page.paragraph_spacing = 18 (and logs the
\* long-text line) if and only if the document holds a paragraph of more
\* than 500 characters or, directly in a callout's block list, one of more
\* than 200; otherwise the three fields keep their baseline values.
LongTextRuleIffLongParagraph ==
    CallReturned =>
        LET long == HasLongText(call.document_ir)
            got == <<Out.page.line_height, Out.callout.line_height,
                     Out.page.paragraph_spacing>>
        IN  /\ call.stats.has_long_text = long
            /\ Logged({"long_text"}) = long
            /\ got = IF long THEN <<18, 18, 18>>
                     ELSE <<config0.page.line_height, config0.callout.line_height,
                            config0.page.paragraph_spacing>>

\* A document whose only long text is a callout paragraph of 201
\* characters, under a baseline of line height 1.6.
CalloutParagraphOf201IsLong ==
    /\ CallReturned
    /\ HasLongText(call.document_ir)
    /\ \A b \in OfType(BlocksOfDocument(call.document_ir), "paragraph") : TextLenOf(b) = 201
    /\ config0.page.line_height = 16
    /\ Out.page.line_height = 18
    /\ Out.callout.line_height = 18
    /\ Out.page.paragraph_spacing = 18

(***************************************************************************)
(* The adjustment engine as a function.                                    *)
(***************************************************************************)
Adjusted == call.outcome \in {"adjusted", "readjusted"}

\* C11: the adjustment run, with the same stats, on an optimizer whose
\* baseline is the configuration a first adjustment returned, returns a
\* configuration equal to that baseline field for field.
AdjustmentIdempotent ==
    call.outcome = "readjusted" => /\ Out = config0
                                   /\ Own = config0

\* A second adjustment in which all five rules were triggered, on a baseline
\* that the first adjustment had changed from the original one (the config
\* object at address 7).
ReadjustedAfterEveryRule ==
    /\ call.outcome = "readjusted"
    /\ Len(optimization_log) = 5
    /\ ToDict(heap, 7) # config0
    /\ ToDict(heap, 7).page.paragraph_spacing # config0.page.paragraph_spacing
    /\ Out = config0

\* Which rules the stats of the last call trigger.
KpiRuleTriggered ==
    /\ call.stats.max_kpi_value_length > 0
    /\ \/ call.solver.needs_adjustment
       \/ call.stats.max_kpi_value_length > KpiLongValue
GridRuleTriggered == call.stats.kpi_count \notin {3, 4}
TableRuleTriggered == call.stats.max_table_columns > 4
LongTextRuleTriggered == call.stats.has_long_text
ManyBlocksRuleTriggered ==
    call.stats.kpi_count + call.stats.table_count + call.stats.chart_count
        + call.stats.callout_count > ManyBlocks
TriggeredRules ==
    {r \in {"kpi", "grid", "table", "long_text", "many_blocks"} :
        \/ r = "kpi" /\ KpiRuleTriggered
        \/ r = "grid" /\ GridRuleTriggered
        \/ r = "table" /\ TableRuleTriggered
        \/ r = "long_text" /\ LongTextRuleTriggered
        \/ r = "many_blocks" /\ ManyBlocksRuleTriggered}

\* The layout a of the output equals the layout b of the baseline in every
\* field outside named.
SameOutside(a, b, named) ==
    /\ DOMAIN a = DOMAIN b
    /\ \A f \in DOMAIN b \ named : a[f] = b[f]

\* C20: every field of the output equals the baseline unless a rule that
\* names it was triggered; the fields no rule names (the chart layout, the
\* flags, and the rest of each layout) always equal the baseline; and the
\* pass added as many log lines as rules were triggered.
AdjustmentFrame ==
    Adjusted =>
        /\ Out.chart = config0.chart
        /\ Out.auto_adjust_font_size = config0.auto_adjust_font_size
        /\ Out.auto_adjust_grid_columns = config0.auto_adjust_grid_columns
        /\ Out.prevent_orphan_headers = config0.prevent_orphan_headers
        /\ Out.optimize_for_print = config0.optimize_for_print
        /\ SameOutside(Out.callout, config0.callout, {"line_height"})
        /\ SameOutside(Out.page, config0.page,
                       {"line_height", "paragraph_spacing", "font_size_base",
                        "font_size_h2", "font_size_h3"})
        /\ SameOutside(Out.kpi_card, config0.kpi_card,
                       {"font_size_value", "padding", "min_height"})
        /\ SameOutside(Out.table, config0.table,
                       {"font_size_header", "font_size_body", "cell_padding"})
        /\ SameOutside(Out.grid, config0.grid, {"columns"})
        /\ Out.kpi_card.font_size_value # config0.kpi_card.font_size_value
              => KpiRuleTriggered
        /\ \/ Out.kpi_card.padding # config0.kpi_card.padding
           \/ Out.grid.columns # config0.grid.columns
              => GridRuleTriggered
        /\ Out.kpi_card.min_height # config0.kpi_card.min_height
              => call.stats.kpi_count > 6
        /\ ~SameOutside(Out.table, config0.table, {}) => TableRuleTriggered
        /\ \/ Out.page.line_height # config0.page.line_height
           \/ Out.page.paragraph_spacing # config0.page.paragraph_spacing
           \/ Out.callout.line_height # config0.callout.line_height
              => LongTextRuleTriggered
        /\ \/ Out.page.font_size_base # config0.page.font_size_base
           \/ Out.page.font_size_h2 # config0.page.font_size_h2
           \/ Out.page.font_size_h3 # config0.page.font_size_h3
              => ManyBlocksRuleTriggered
        /\ Len(optimization_log) = Cardinality(TriggeredRules)

\* A first adjustment of the default baseline in which only the table rule
\* and the long-text rule were triggered: two log lines, the table and line
\* heights changed, the KPI card and the grid as in the baseline.
TwoRulesTwoLines ==
    /\ call.outcome = "adjusted"
    /\ config0 = DefaultConfig
    /\ TriggeredRules = {"table", "long_text"}
    /\ Len(optimization_log) = 2
    /\ Out.table # config0.table
    /\ Out.page.line_height # config0.page.line_height
    /\ Out.kpi_card = config0.kpi_card
    /\ Out.grid = config0.grid

(***************************************************************************)
(* Passes that follow one another.                                         *)
(***************************************************************************)
\* The rule a log line comes from.
RuleOf(msg) ==
    CASE msg \in {"kpi_value_too_long", "kpi_value_long"} -> "kpi"
      [] msg \in {"kpi_many", "kpi_medium", "kpi_few"} -> "grid"
      [] msg \in {"table_very_wide", "table_wide", "table_medium"} -> "table"
      [] OTHER -> msg

\* C12: any two completed passes on one optimizer over documents with equal
\* stats returned equal configurations and equal ordered lists of adjustment
\* lines, whatever passes ran before or between them; no log entry holds two
\* lines of one rule (nothing is carried over from an earlier pass); and
\* optimization_log is empty after every pass.
PassesWithEqualStatsAgree ==
    /\ optimization_log = <<>>
    /\ \A i, j \in 1..Len(passes) :
          /\ passes[i].outcome = "returned"
          /\ passes[j].outcome = "returned"
          /\ passes[i].stats = passes[j].stats
          => /\ passes[i].config = passes[j].config
             /\ passes[i].optimizations = passes[j].optimizations
    /\ \A i \in 1..Len(passes) :
          \A k, l \in 1..Len(passes[i].optimizations) :
              RuleOf(passes[i].optimizations[k].msg)
                  = RuleOf(passes[i].optimizations[l].msg) => k = l

\* Three passes: the first and the third over documents with equal stats,
\* with adjustment lines in their entries, and another pass with other lines
\* between them.
EqualPassesAroundAnother ==
    /\ Len(passes) = 3
    /\ \A i \in 1..3 : passes[i].outcome = "returned"
    /\ passes[1].stats = passes[3].stats
    /\ passes[1].stats # passes[2].stats
    /\ Len(passes[1].optimizations) >= 2
    /\ Len(passes[2].optimizations) >= 3
    /\ passes[2].optimizations # passes[3].optimizations
    /\ passes[1].config = passes[3].config

(***************************************************************************)
(* Persistence and the stylesheet.                                         *)
(***************************************************************************)
\* C13: load_config of a file that save_config wrote, with or without a log
\* entry, returns an optimizer whose configuration equals the saving
\* optimizer's in all six layouts and four flags; and
\* from_dict(to_dict(C)) = C.
SaveLoadRoundTrip ==
    /\ FromDict(Own) = [raised |-> FALSE, value |-> Own]
    /\ loaded.source = "save_config" =>
          /\ loaded.outcome = "returned"
          /\ loaded.config = Own
          /\ loaded.optimization_log = <<>>

\* A tuned configuration (line heights 1.8, flags off) saved with the log
\* entry of a pass and loaded back.
TunedConfigSavedWithEntryAndLoaded ==
    /\ loaded.source = "save_config"
    /\ "optimization_log" \in DOMAIN loaded.data
    /\ Len(loaded.data.optimization_log.optimizations) > 0
    /\ loaded.config = TunedConfig
    /\ Own = TunedConfig
    /\ loaded.config # DefaultConfig

Present(flags) == {Flags[k] : k \in 1..Len(Flags)} \cap DOMAIN flags

\* A stored file with a config whose six sections are there and hold only
\* fields of their dataclass (with or without flags and optimization_log).
WellFormedStored(data) ==
    /\ "config" \in DOMAIN data
    /\ \A k \in 1..Len(Sections) :
          /\ Sections[k] \in DOMAIN data.config
          /\ DOMAIN data.config[Sections[k]] \subseteq DOMAIN DefaultConfig[Sections[k]]

\* C14: load_config of a path with no file returns, without raising, an
\* optimizer with the default configuration; of a stored config (all six
\* sections valid) that lacks some of the four flags, one whose missing flags
\* are true and whose present flags and stored layout fields are as stored;
\* and a file with no optimization_log loads like one with it.
LoadSubstitutesDefaults ==
    /\ loaded.outcome # "none" /\ loaded.source = "none" =>
          /\ loaded.outcome = "returned"
          /\ loaded.config = DefaultConfig
    /\ loaded.outcome = "returned" /\ loaded.source # "none" =>
          /\ \A k \in 1..Len(Flags) :
                loaded.config[Flags[k]] =
                    IF Flags[k] \in DOMAIN loaded.data.config
                    THEN loaded.data.config[Flags[k]] ELSE TRUE
          /\ \A k \in 1..Len(Sections) :
                \A f \in DOMAIN loaded.data.config[Sections[k]] :
                    loaded.config[Sections[k]][f] = loaded.data.config[Sections[k]][f]
    /\ loaded.outcome # "none" /\ loaded.source # "none"
          /\ WellFormedStored(loaded.data)
          => loaded.outcome = "returned"

\* A stored config without any flag and without optimization_log, loaded:
\* its flags are true, its layouts those stored (not the defaults).
FlaglessFileLoaded ==
    /\ loaded.outcome = "returned"
    /\ loaded.source = "other"
    /\ DOMAIN loaded.data = {"config"}
    /\ Present(loaded.data.config) = {}
    /\ loaded.config = [TunedConfig EXCEPT !.auto_adjust_font_size = TRUE,
                                           !.auto_adjust_grid_columns = TRUE,
                                           !.prevent_orphan_headers = TRUE,
                                           !.optimize_for_print = TRUE]

\* The fields of the six layouts that hold a number.
NumericFields ==
    UNION {{<<Sections[k], FieldOrder[Sections[k]][i]>> :
               i \in 1..Len(FieldOrder[Sections[k]])} : k \in 1..Len(Sections)}
        \ {<<"callout", "max_width">>, <<"table", "overflow_strategy">>}
DeclarationsOf(sf) ==
    {k \in 1..Len(css) : css[k].section = sf[1] /\ css[k].field = sf[2]}

\* C15: in the stylesheet generate_pdf_css returned every numeric field of
\* the configuration is rendered in exactly one declaration.
EveryNumericFieldRenderedOnce ==
    css # <<>> => \A sf \in NumericFields : Cardinality(DeclarationsOf(sf)) = 1

FontSizeFields ==
    {sf \in NumericFields :
        sf[2] \in {"font_size_base", "font_size_h1", "font_size_h2", "font_size_h3",
                   "font_size_h4", "font_size_value", "font_size_label",
                   "font_size_change", "font_size_title", "font_size_content",
                   "font_size_header", "font_size_body"}}
ValidConfig(cfg) ==
    /\ cfg.grid.columns >= 1
    /\ \A sf \in FontSizeFields : cfg[sf[1]][sf[2]] >= 1

\* C16: every configuration an optimizer holds or returns (constructed with,
\* loaded, or adjusted) has at least one grid column and font sizes of at
\* least 1.
ConfigurationsValid ==
    /\ ValidConfig(Own)
    /\ loaded.outcome = "returned" => ValidConfig(loaded.config)
    /\ CallReturned => ValidConfig(Out)

(***************************************************************************)
(* The analyzer as a function.                                             *)
(***************************************************************************)
\* C17: _analyze_document returns the same stats, in every field, for a
\* document and for the document with the blocks of one block list, or the
\* chapters of one chapter list, in another order (and raises on the one
\* exactly when it raises on the other).
AnalysisOrderIndependent ==
    analysis.called =>
        /\ analysis.result.raised = analysis.result_reordered.raised
        /\ ~analysis.result.raised =>
              analysis.result.stats = analysis.result_reordered.stats

\* Two KPI grids whose longest values differ (5 and 12 characters),
\* analyzed in both orders with a long paragraph: the maximum and the long
\* text flag are the same either way.
GridsAnalyzedInBothOrders ==
    /\ analysis.called
    /\ analysis.document_ir # analysis.reordered
    /\ ~analysis.result.raised
    /\ analysis.result.stats.max_kpi_value_length = 12
    /\ analysis.result.stats.kpi_count = 3
    /\ analysis.result.stats.has_long_text
    /\ analysis.result_reordered.stats = analysis.result.stats

RECURSIVE FlatBlocks(_)
\* The record blocks of a block list, each followed by those of its nested
\* block list, as a sequence (a block that occurs twice is there twice).
FlatBlocks(items) ==
    IF items = <<>> THEN <<>>
    ELSE (IF IsDict(Head(items))
          THEN <<Head(items)>>
                   \o FlatBlocks(ItemsOf(Get(Head(items), "blocks", EmptyList)))
          ELSE <<>>) \o FlatBlocks(Tail(items))

RECURSIVE FlatBlocksOfChapters(_)
FlatBlocksOfChapters(chapters) ==
    IF chapters = <<>> THEN <<>>
    ELSE (IF IsDict(Head(chapters))
          THEN FlatBlocks(ItemsOf(Get(Head(chapters), "blocks", EmptyList)))
                   \o FlatBlocksOfChapters(ItemsOf(Get(Head(chapters), "children",
                                                       EmptyList)))
          ELSE <<>>) \o FlatBlocksOfChapters(Tail(chapters))

\* The blocks reachable from the root of a document.
ReachableBlocks(doc) == FlatBlocksOfChapters(ItemsOf(RootChapters(doc)))
NumberOfType(blocks, tags) ==
    Cardinality({k \in 1..Len(blocks) : \E t \in tags : EqStr(TypeOf(blocks[k]), t)})
RECURSIVE TotalItems(_)
TotalItems(blocks) ==
    IF blocks = <<>> THEN 0
    ELSE (IF EqStr(TypeOf(Head(blocks)), "kpiGrid")
          THEN PyLen(Get(Head(blocks), "items", EmptyList)) ELSE 0)
         + TotalItems(Tail(blocks))
RECURSIVE TotalText(_)
TotalText(blocks) ==
    IF blocks = <<>> THEN 0
    ELSE (IF EqStr(TypeOf(Head(blocks)), "paragraph")
          THEN TextLenOf(Head(blocks)) ELSE 0)
         + TotalText(Tail(blocks))

\* C18: when _analyze_document returns, kpi_count is the number of items of
\* all reachable kpiGrid blocks, table_count the number of reachable tables,
\* chart_count that of reachable charts and widgets, callout_count that of
\* reachable callouts and total_content_length the sum of the text lengths
\* of the reachable paragraphs, each block counted once whatever the type of
\* the block around it.
ReachableBlocksCountedOnce ==
    analysis.called /\ ~analysis.result.raised =>
        LET blocks == ReachableBlocks(analysis.document_ir)
            stats == analysis.result.stats
        IN  /\ stats.kpi_count = TotalItems(blocks)
            /\ stats.table_count = NumberOfType(blocks, {"table"})
            /\ stats.chart_count = NumberOfType(blocks, {"chart", "widget"})
            /\ stats.callout_count = NumberOfType(blocks, {"callout"})
            /\ stats.total_content_length = TotalText(blocks)

\* A table whose nested block list holds the same kpiGrid twice and a callout
\* with a widget: the grid's items are counted twice, the enclosing table and
\* the callout once, the widget once.
BlocksCountedInsideTable ==
    /\ analysis.called
    /\ analysis.arrangement = "table"
    /\ ~analysis.result.raised
    /\ analysis.result.stats.kpi_count = 4
    /\ analysis.result.stats.table_count = 1
    /\ analysis.result.stats.callout_count = 1
    /\ analysis.result.stats.chart_count = 1
    /\ analysis.result.stats.total_content_length = 201

(***************************************************************************)
(* Passes on two threads.                                                  *)
(***************************************************************************)
\* The result of the pass of stats run alone on a new optimizer with the
\* baseline of construction.
Alone(stats) ==
    LET n == NewConfig(<<>>, config0)
        adj == AdjustConfigBasedOnStats(n.heap, <<>>, n.addr, stats)
    IN  [config |-> ToDict(adj.heap, adj.config), optimizations |-> adj.log]

\* C19: under every interleaving of two passes on one optimizer, the
\* baseline configuration (the config object and its six layout objects) is
\* in every state as it was constructed, and a pass that returns, returns
\* the configuration it returns when run alone, in objects of its own.
ThreadsDoNotInterfere ==
    threads # <<>> =>
        /\ self_config = 7
        /\ SubSeq(heap, 1, 7) = NewConfig(<<>>, config0).heap
        /\ \A t \in Threads :
              threads[t].pc = "done" =>
                  /\ ToDict(heap, threads[t].config) = Alone(threads[t].stats).config
                  /\ ObjectsOf(threads[t].config) \cap ObjectsOf(self_config) = {}
        /\ \A t, u \in Threads :
              /\ t # u
              /\ threads[t].config # 0
              /\ threads[u].config # 0
              => ObjectsOf(threads[t].config) \cap ObjectsOf(threads[u].config) = {}

\* Both passes returned, and they did interleave: the log entry of thread 1,
\* whose document has no table, holds the table line of thread 2, yet the
\* table layout thread 1 returned is the baseline's and thread 2's is not.
PassesInterleaved ==
    /\ threads # <<>>
    /\ threads[1].pc = "done"
    /\ threads[2].pc = "done"
    /\ threads[1].stats.max_table_columns = 0
    /\ \E k \in 1..Len(threads[1].optimizations) :
           threads[1].optimizations[k].msg = "table_very_wide"
    /\ ToDict(heap, threads[1].config).table = config0.table
    /\ ToDict(heap, threads[2].config).table # config0.table
    /\ ToDict(heap, threads[1].config) # config0

(***************************************************************************)
(* The KPI value font size as a function of the longest KPI value.         *)
(***************************************************************************)
\* The passes of an optimizer constructed with the default configuration
\* that returned a configuration.
ReturnedPasses ==
    {i \in 1..Len(passes) : config0 = DefaultConfig /\ passes[i].outcome = "returned"}

\* C21: with the default baseline, the KPI value font size the adjustment
\* engine chooses is non-increasing in max_kpi_value_length: of two passes,
\* the one whose longest KPI value is longer never gets the larger
\* kpi_card.font_size_value.  The code does not keep it: values of 11 to 18
\* digits fit at 32, are not shrunk by the solver and get the precautionary
\* 28, while longer values are shrunk by the solver to 30 or 29 first.
KpiFontSizeNonIncreasing ==
    \A i \in ReturnedPasses, j \in ReturnedPasses :
        passes[i].stats.max_kpi_value_length < passes[j].stats.max_kpi_value_length
            => passes[j].config.kpi_card.font_size_value
                   <= passes[i].config.kpi_card.font_size_value

(***************************************************************************)
(* The flags.                                                              *)
(***************************************************************************)
Layouts(cfg) == [s \in {Sections[i] : i \in 1..Len(Sections)} |-> cfg[s]]
FlagsOf(cfg) == [f \in {Flags[i] : i \in 1..Len(Flags)} |-> cfg[f]]

SavedConfig(file) == file.content.members[1]

\* C23: after any sequence of optimize_for_document calls, the file that
\* save_config writes and the stylesheet that generate_pdf_css returns are
\* those of the configuration the optimizer was constructed with, whatever
\* the passes returned; the configuration a pass returned is written or
\* rendered by an optimizer constructed with it.
SavedAndRenderedAreBaseline ==
    [][/\ disk' # disk => SavedConfig(disk') = Member("config", DumpConfig(config0))
       /\ css' # css => css' = GeneratePdfCss(config0)]_vars

\* Reached: the first optimizer, after a pass that returned a configuration
\* with other rendered values than its baseline, saved with the log entry
\* of that pass and rendered: file and stylesheet are the baseline's, not
\* the returned configuration's.
BaselineSavedAfterPass ==
    /\ self_config = 7
    /\ call.outcome = "returned"
    /\ Out # config0
    /\ disk.written_by = "save_config"
    /\ Len(disk.content.members) = 2
    /\ disk.content.members[2].value = DumpLogEntry(call.log_entry)
    /\ SavedConfig(disk).value = DumpConfig(config0)
    /\ SavedConfig(disk).value # DumpConfig(Out)
    /\ css = GeneratePdfCss(config0)
    /\ css # GeneratePdfCss(Out)

(***************************************************************************)
(* The log entries of passes on two threads.                               *)
(***************************************************************************)
\* C24: when two passes on one optimizer interleave, the 'optimizations'
\* list of each pass's log entry holds exactly the lines that pass appended,
\* in order: those of the pass run alone.  The code does not keep it: both
\* passes append to the one self.optimization_log, and each copies the whole
\* list into its entry and then clears it.
LogEntriesIsolated ==
    threads # <<>> =>
        \A t \in Threads :
            threads[t].pc \in {"clear", "done"} =>
                threads[t].optimizations = Alone(threads[t].stats).optimizations
====
